---- MODULE Spec2Model ----
(***************************************************************************)
(* Model of cloudbeats-backup-generator: the worker pool (pkg/worker), the *)
(* tag cache (pkg/cache), tags.ReadFile at its boundary, the part of main  *)
(* that reads the tags through the pool and then updates and saves the     *)
(* cache and writes the backup, and the Dropbox client (pkg/dropbox).      *)
(*                                                                         *)
(*   Spec        one run of main, which may be interrupted                 *)
(*   SpecReruns  one run after another while other programs change files   *)
(*   SpecCache   the cache on its own, under any sequence of its calls     *)
(*   SpecApi     one call of a function of the Dropbox client against a    *)
(*               server that answers as it likes                           *)
(*                                                                         *)
(* Strings are sequences of code units.  InvalidByte stands for a byte     *)
(* that is not valid UTF-8, ReplacementChar for U+FFFD.                    *)
(***************************************************************************)
EXTENDS Integers, Sequences, FiniteSets, TLC

VARIABLES
    items,        \* result.Matched: the local paths handed to worker.Process
    n,            \* *workers: the concurrency limit
    mainPc,       \* position of the main goroutine
    loopI,        \* index of the submission loop in Process (1-based)
    storeI,       \* index of the cache update loop in main (1-based)
    results,      \* results[] of Process
    errors,       \* errors[] of Process
    done,         \* atomic counter `done`
    wg,           \* sync.WaitGroup counter
    sem,          \* number of tokens in the semaphore channel
    wk,           \* the goroutine started for each index
    cancelled,    \* ctx.Err() != nil
    entries,      \* TagCache.entries
    dirty,        \* TagCache.dirty
    disk,         \* the cache file
    fs,           \* the audio files: stat info and tag content
    clock,        \* filesystem clock used for modification times
    backupFile,   \* the output file written by backup.Write
    run,          \* number of the current program run
    mods,         \* number of file changes made by the environment
    calls,        \* history: how often fn was invoked for each index
    fnRet,        \* history: what fn returned for each index
    progressLog,  \* history: the progress callback invocations, in execution order
    obs,          \* history: the last cache operation observed
    shadow,       \* history: what was stored in the cache and what was saved
    call,         \* the frame of Client.apiCall, with the history of its requests
    scan,         \* the frame of ComputeRemotePath and Match
    tk,           \* the frame of resolveToken
    warnings,     \* the files main has logged a tag reading warning for
    stages,       \* history: the stages of main before the cache load, and how they ended
    build,        \* main's item building: the matched files, their metadata, the document
    lf            \* the frame of the function of package dropbox that is running

vars == <<items, n, mainPc, loopI, storeI, results, errors, done, wg, sem, wk,
          cancelled, entries, dirty, disk, fs, clock, backupFile, run, mods,
          calls, fnRet, progressLog, obs, shadow, call, lf, scan, tk,
          warnings, stages, build>>


----------------------------------------------------------------------------
(* Bounds *)

MaxItems == 2
MaxWorkers == 2
MaxMods == 1
MaxRuns == 2
MaxRetries == 8       \* 429 responses the server gives to one API call
MaxPageRetries == 1   \* the same, to one page request of ListFolder
MaxPages == 3         \* pages of one folder listing

----------------------------------------------------------------------------
(* Strings *)

InvalidByte == "xFF"
ReplacementChar == "uFFFD"

\* A string is the sequence of its characters.  A character outside ASCII
\* goes by a name: "e-acute", "U+0301" (the combining acute accent), "xFF"
\* (a byte that is not UTF-8), "uFFFD".
Separator == "/"
DotMp3 == <<".", "m", "p", "3">>

Path1 == <<"/", "a">> \o DotMp3
Path2 == <<"/", "b">> \o DotMp3
Path3 == <<"/", "c">> \o DotMp3
Path4 == <<"/", "d">> \o DotMp3
PathSeq == <<Path1, Path2, Path3, Path4>>

Unknown == <<"U", "n", "k", "n", "o", "w", "n">>

None == "none"
NoErr == "nil"
PanicErr == "taglib panicked"

\* tags.AudioMeta{}
ZeroMeta == [Title |-> <<>>, Artist |-> <<>>, TrackNumber |-> 0]

\* Position of the last "/" of a path, 0 when there is none.
LastSlash(path) ==
    LET S == {i \in 1..Len(path) : path[i] = "/"}
    IN IF S = {} THEN 0 ELSE CHOOSE i \in S : \A j \in S : j <= i

\* filepath.Base: the last element of the path, trailing separators
\* removed first; "." for the empty path, "/" for a path of separators.
RECURSIVE StripTrailingSeparators(_)
StripTrailingSeparators(path) ==
    IF path # <<>> /\ path[Len(path)] = Separator
    THEN StripTrailingSeparators(SubSeq(path, 1, Len(path) - 1))
    ELSE path
Base(path) ==
    IF path = <<>> THEN <<".">>
    ELSE LET stripped == StripTrailingSeparators(path)
             name == SubSeq(stripped, LastSlash(stripped) + 1, Len(stripped))
         IN IF name = <<>> THEN <<Separator>> ELSE name

\* filepath.Ext: the suffix that begins at the last dot of the last element
\* of the path, empty when that element has no dot.
Ext(path) ==
    LET dots == {i \in (LastSlash(path) + 1)..Len(path) : path[i] = "."}
    IN IF dots = {} THEN <<>>
       ELSE SubSeq(path, CHOOSE i \in dots : \A j \in dots : j <= i, Len(path))

\* strings.HasSuffix, strings.TrimSuffix
HasSuffix(str, suffix) ==
    Len(str) >= Len(suffix)
    /\ SubSeq(str, Len(str) - Len(suffix) + 1, Len(str)) = suffix
TrimSuffix(str, suffix) ==
    IF HasSuffix(str, suffix) THEN SubSeq(str, 1, Len(str) - Len(suffix)) ELSE str

filenameWithoutExt(path) ==
    LET name == Base(path)
    IN TrimSuffix(name, Ext(name))

\* The defaults ReadFile starts from.
DefaultMeta(path) ==
    [Title |-> filenameWithoutExt(path), Artist |-> Unknown, TrackNumber |-> -1]

\* Tag content of an audio file: "unopenable" (audiotags.Open fails),
\* "panic" (the tag library panics), or the tags it carries.
Unopenable == [kind |-> "unopenable", title |-> <<>>]
Panics == [kind |-> "panic", title |-> <<>>]
Tagged(title) == [kind |-> "tags", title |-> title]

\* tags.ReadFile on a file with the given tag content: <<meta, err>>.
\* The title tag is the one tag the model carries.
ReadFileSwallowsPanic(path, content) ==
    IF content.kind \in {"unopenable", "panic"} THEN <<DefaultMeta(path), NoErr>>
    ELSE <<[DefaultMeta(path) EXCEPT
              !.Title = IF content.title # <<>> THEN content.title ELSE @],
           NoErr>>
ReadFileZeroOnPanic(path, content) ==
    IF content.kind = "unopenable" THEN <<DefaultMeta(path), NoErr>>
    ELSE IF content.kind = "panic" THEN <<ZeroMeta, PanicErr>>
    ELSE <<[DefaultMeta(path) EXCEPT
              !.Title = IF content.title # <<>> THEN content.title ELSE @],
           NoErr>>
ReadFile(path, content) ==
    IF content.kind = "unopenable" THEN <<DefaultMeta(path), NoErr>>
    ELSE IF content.kind = "panic" THEN <<DefaultMeta(path), PanicErr>>
    ELSE <<[DefaultMeta(path) EXCEPT
              !.Title = IF content.title # <<>> THEN content.title ELSE @],
           NoErr>>

----------------------------------------------------------------------------
(* The file system *)

Sizes == {1, 2}

\* os.Stat
Stat(fsys, path) ==
    IF path \in DOMAIN fsys /\ fsys[path].exists
    THEN [ok |-> TRUE, size |-> fsys[path].size, mtime |-> fsys[path].mtime]
    ELSE [ok |-> FALSE, size |-> 0, mtime |-> 0]

\* What the tag library finds when it opens the file.
ContentOf(fsys, path) ==
    IF path \in DOMAIN fsys /\ fsys[path].exists
    THEN fsys[path].content
    ELSE Unopenable

----------------------------------------------------------------------------
(* pkg/cache *)

fileKey(info) == [Size |-> info.size, ModTime |-> info.mtime]

entry(key, meta) == [Key |-> key, Meta |-> meta]

ZeroKey == [Size |-> 0, ModTime |-> 0]

NoEntries == [k \in {} |-> entry(ZeroKey, ZeroMeta)]

\* The comparison of Lookup: size and mtime both equal the stored key.
KeyMatchesSizeOnly(info, key) == info.size = key.Size
KeyMatches(info, key) == info.size = key.Size /\ info.mtime = key.ModTime

\* TagCache.Lookup: <<meta, found>>
Lookup(ents, fsys, path) ==
    IF path \notin DOMAIN ents THEN <<ZeroMeta, FALSE>>
    ELSE LET info == Stat(fsys, path) IN
         IF ~info.ok THEN <<ZeroMeta, FALSE>>
         ELSE IF ~KeyMatches(info, ents[path].Key) THEN <<ZeroMeta, FALSE>>
         ELSE <<ents[path].Meta, TRUE>>

\* TagCache.Store: the entries and the dirty flag after the call.
StoreEntriesDropsMissing(ents, fsys, path, meta) ==
    LET info == Stat(fsys, path) IN
    IF ~info.ok THEN [k \in DOMAIN ents \ {path} |-> ents[k]]
    ELSE [k \in DOMAIN ents \cup {path} |->
            IF k = path THEN entry(fileKey(info), meta) ELSE ents[k]]
StoreEntries(ents, fsys, path, meta) ==
    LET info == Stat(fsys, path) IN
    IF ~info.ok THEN ents
    ELSE [k \in DOMAIN ents \cup {path} |->
            IF k = path THEN entry(fileKey(info), meta) ELSE ents[k]]

StoreDirtyAlways(d, fsys, path) == TRUE
StoreDirty(d, fsys, path) == IF ~Stat(fsys, path).ok THEN d ELSE TRUE

\* encoding/json coerces a string to valid UTF-8 when it writes it:
\* every invalid byte becomes U+FFFD.
EncodeString(s) ==
    [i \in 1..Len(s) |-> IF s[i] = InvalidByte THEN ReplacementChar ELSE s[i]]

EncodeMeta(m) ==
    [Title |-> EncodeString(m.Title), Artist |-> EncodeString(m.Artist),
     TrackNumber |-> m.TrackNumber]

\* k1 sorts after k2 in byte order, for two keys that encode to the same
\* string: they differ only where one has the invalid byte (0xFF) and the
\* other U+FFFD (0xEF 0xBF 0xBD).
SortsAfter(k1, k2) ==
    \E i \in 1..Len(k1) :
        /\ \A j \in 1..(i - 1) : k1[j] = k2[j]
        /\ k1[i] = InvalidByte /\ k2[i] # InvalidByte

\* json.Marshal(tc.entries) followed by the decoder's view of the text:
\* keys are written in sorted order, and of two equal keys the decoder keeps
\* the last.
Marshal(ents) ==
    LET keys == {EncodeString(k) : k \in DOMAIN ents}
        pre(ek) == {k \in DOMAIN ents : EncodeString(k) = ek}
        last(ek) == CHOOSE k \in pre(ek) :
                        \A k2 \in pre(ek) \ {k} : SortsAfter(k, k2)
    IN [ek \in keys |-> entry(ents[last(ek)].Key, EncodeMeta(ents[last(ek)].Meta))]

\* The cache file: absent, unreadable, malformed (doc holds what a decoder
\* has filled in before it reports the error) or a JSON document.
AbsentFile == [kind |-> "absent", doc |-> NoEntries]

LoadKeepsDecoded(file) ==
    IF file.kind \in {"absent", "unreadable"} THEN NoEntries ELSE file.doc

\* cache.Load: the entries of the new TagCache (dirty is false).
Load(file) ==
    IF file.kind \in {"absent", "unreadable"} THEN NoEntries
    ELSE IF file.kind = "malformed" THEN NoEntries
    ELSE file.doc

\* What the file system lets Save do: everything, or os.MkdirAll fails, or
\* os.WriteFile fails to open the file, or fails after truncating it.
SaveOutcomes == {"ok", "mkdirfail", "openfail", "writefail"}

\* TagCache.Save: the cache file after the call.
Save(file, ents, d, outcome) ==
    IF ~d THEN file
    ELSE IF outcome \in {"mkdirfail", "openfail"} THEN file
    ELSE IF outcome = "writefail" THEN [kind |-> "malformed", doc |-> NoEntries]
    ELSE [kind |-> "json", doc |-> Marshal(ents)]

\* The error Save returns.
SaveErr(d, outcome) == IF d /\ outcome # "ok" THEN outcome ELSE NoErr

\* The file system calls Save makes, in order.
SaveSyscalls(d, outcome) ==
    IF ~d THEN <<>>
    ELSE IF outcome = "mkdirfail" THEN <<"MkdirAll">>
    ELSE <<"MkdirAll", "WriteFile">>

----------------------------------------------------------------------------
(* The Dropbox client: requests, responses and the retry policy *)

initialBackoff == 1      \* seconds
maxBackoff == 60

StatusOK == 200
StatusUnauthorized == 401
StatusTooManyRequests == 429

\* The statuses the server answers with.
Statuses == {StatusOK, StatusUnauthorized, StatusTooManyRequests, 404, 500}

Min(a, b) == IF a < b THEN a ELSE b

\* backoff = time.Duration(math.Min(float64(backoff*2), float64(maxBackoff)))
NextBackoffUncapped(backoff) == backoff * 2
NextBackoff(backoff) == Min(backoff * 2, maxBackoff)

\* strconv.Atoi on a string of characters: an optional sign followed by
\* one or more decimal digits.
Digits == <<"0", "1", "2", "3", "4", "5", "6", "7", "8", "9">>
IsDigit(c) == \E d \in 1..10 : Digits[d] = c
DigitVal(c) == (CHOOSE d \in 1..10 : Digits[d] = c) - 1

RECURSIVE ParseDigits(_, _)
ParseDigits(ds, acc) ==
    IF ds = <<>> THEN acc
    ELSE ParseDigits(Tail(ds), acc * 10 + DigitVal(Head(ds)))

Atoi(str) ==
    LET signed == str # <<>> /\ Head(str) \in {"+", "-"}
        ds == IF signed THEN Tail(str) ELSE str
    IN IF ds = <<>> \/ \E i \in 1..Len(ds) : ~IsDigit(ds[i])
       THEN [ok |-> FALSE, val |-> 0]
       ELSE [ok |-> TRUE,
             val |-> IF signed /\ Head(str) = "-"
                     THEN 0 - ParseDigits(ds, 0) ELSE ParseDigits(ds, 0)]

\* resp.Header.Get("Retry-After"): the empty string when the header is
\* absent.
RetryAfterHeaders ==
    {<<>>, <<"0">>, <<"2">>, <<"1", "2", "0">>, <<"-", "1">>, <<"s", "o", "o", "n">>}

\* The wait before the retry, in seconds (client.go:146-151).
WaitCapped(backoff, retryAfter) ==
    IF retryAfter # <<>> /\ Atoi(retryAfter).ok
    THEN Min(Atoi(retryAfter).val, maxBackoff)
    ELSE backoff
WaitAfterDoubling(backoff, retryAfter) ==
    IF retryAfter # <<>> /\ Atoi(retryAfter).ok
    THEN Atoi(retryAfter).val
    ELSE backoff * 2
Wait(backoff, retryAfter) ==
    IF retryAfter # <<>> /\ Atoi(retryAfter).ok
    THEN Atoi(retryAfter).val
    ELSE backoff

\* The branch of the switch on resp.StatusCode.
CaseRetries401(status) ==
    IF status = StatusOK THEN "ok"
    ELSE IF status \in {StatusUnauthorized, StatusTooManyRequests} THEN "ratelimited"
    ELSE "other"
CaseWithout429(status) ==
    IF status = StatusOK THEN "ok"
    ELSE IF status = StatusUnauthorized THEN "unauthorized"
    ELSE "other"
CaseRetriesServerErrors(status) ==
    IF status = StatusOK THEN "ok"
    ELSE IF status = StatusUnauthorized THEN "unauthorized"
    ELSE IF status = StatusTooManyRequests \/ status >= 500 THEN "ratelimited"
    ELSE "other"
Case(status) ==
    IF status = StatusOK THEN "ok"
    ELSE IF status = StatusUnauthorized THEN "unauthorized"
    ELSE IF status = StatusTooManyRequests THEN "ratelimited"
    ELSE "other"

\* Bodies.  A body either decodes as JSON into doc or does not.
Body(valid, doc) == [valid |-> valid, doc |-> doc]
NoBody == Body(FALSE, [raw |-> None])
NotJSON == Body(FALSE, [raw |-> "not json"])
ErrorBodies == {Body(TRUE, [error |-> "e1"]), NotJSON}

\* What a call returns: kind "ok" with the response body, or an error.
\*   "err401"     the authentication error of the 401 branch
\*   "errStatus"  "Dropbox API error <status> on <endpoint>: <body>"
\*   "errDo"      the error of c.http.Do, wrapped; status 1 if it wraps the
\*                context's error
\*   "errCtx"     ctx.Err()
Ret(kind, status, body) == [kind |-> kind, status |-> status, body |-> body]
NoRet == Ret(None, 0, NoBody)

IsCancellation(ret) ==
    ret.kind = "errCtx" \/ (ret.kind = "errDo" /\ ret.status = 1)

\* The frame of apiCall at its first statement.  The fields from sent on
\* are history: the requests sent, the statuses received, whether every 429
\* so far came without a Retry-After header, the longest wait and the
\* longest wait taken from the backoff, whether the cancellation arrived
\* during a sleep and how many requests had been sent by then, and the last
\* response.
NewCall(endpoint, body) ==
    [pc |-> "send", endpoint |-> endpoint, body |-> body,
     backoff |-> initialBackoff, wait |-> 0, elapsed |-> FALSE,
     hdr |-> <<>>, ret |-> NoRet,
     sent |-> 0, resps |-> <<>>, bare |-> TRUE, maxWait |-> 0,
     asleepAtCancel |-> FALSE, sentAtCancel |-> 0,
     last |-> Ret(None, 0, NoBody), maxOwnWait |-> 0]

\* No apiCall is running.
IdleCall == [NewCall(None, NoBody) EXCEPT !.pc = "idle"]

\* Entries and pages of a folder listing.
Entry(tag, id) == [Tag |-> tag, ID |-> id]
Page(ents, cursor, hasMore) == [Entries |-> ents, Cursor |-> cursor, HasMore |-> hasMore]
NoPage == Page(<<>>, "", FALSE)

PageEntryLists ==
    {<<>>,
     <<Entry("file", "id:a"), Entry("folder", "id:b")>>,
     <<Entry("deleted", "id:c"), Entry("file", "id:d")>>}
Cursors == {"c1", "c2"}

\* The 200 bodies the server sends, by endpoint.
ListBodies ==
    {Body(TRUE, Page(es, c, TRUE)) : es \in PageEntryLists, c \in Cursors}
    \cup {Body(TRUE, Page(es, "c1", FALSE)) : es \in PageEntryLists}
AccountBodies ==
    {Body(TRUE, [account_id |-> "dbid:1"]), Body(TRUE, [account_id |-> ""])}
TokenBodies ==
    {Body(TRUE, [access_token |-> a, refresh_token |-> r]) :
        a \in {"", "sl.at"}, r \in {"", "rt"}}

OkBodies(endpoint) ==
    {NotJSON} \cup
    (CASE endpoint \in {"/files/list_folder", "/files/list_folder/continue"} -> ListBodies
       [] endpoint = "/users/get_current_account" -> AccountBodies
       [] OTHER -> TokenBodies)

\* filterFiles
filterFiles(ents) == SelectSeq(ents, LAMBDA e : e.Tag = "file")

\* The request bodies of ListFolder.
ListRequest(remotePath) == [path |-> remotePath, recursive |-> TRUE]
ContinueRequestFirstCursor(resp, pages) == [cursor |-> pages[1].Cursor]
ContinueRequest(resp, pages) == [cursor |-> resp.Cursor]

\* The frame of a function of package dropbox.  err and val are what it
\* returns; pages, reqs and sent are history: the pages decoded, the API
\* calls made, the requests a one-shot function has sent.
NilErr == Ret("nil", 0, NoBody)
NewOp(op) ==
    [op |-> op, pc |-> "start", resp |-> NoPage, entries |-> <<>>,
     err |-> NoRet, val |-> <<>>,
     pages |-> <<>>, reqs |-> <<>>, sent |-> 0, last |-> Ret(None, 0, NoBody)]

\* No function of package dropbox is running.
IdleOp == [NewOp(None) EXCEPT !.pc = "idle"]

----------------------------------------------------------------------------
(* Paths and names as the matcher sees them: ASCII, the letters with an   *)
(* acute accent ("e-acute", "E-acute", ...) and the combining acute accent. *)

CombiningAcute == "U+0301"

UpperLetters == <<"A", "B", "C", "D", "E", "F", "G", "H", "I", "J", "K", "L", "M", "N",
                 "O", "P", "Q", "R", "S", "T", "U", "V", "W", "X", "Y", "Z">>
LowerLetters == <<"a", "b", "c", "d", "e", "f", "g", "h", "i", "j", "k", "l", "m", "n",
                 "o", "p", "q", "r", "s", "t", "u", "v", "w", "x", "y", "z">>

\* The letters that Unicode has with an acute accent as one character.
AcuteLetters == {"A", "C", "E", "G", "I", "K", "L", "M", "N", "O", "P", "R",
                 "S", "U", "W", "Y", "Z"}
Acute(c) == c \o "-acute"

\* unicode.ToLower on the characters of the model: <<upper, lower>>.
LowerOf ==
    {<<UpperLetters[i], LowerLetters[i]>> : i \in DOMAIN UpperLetters}
    \cup {<<Acute(UpperLetters[i]), Acute(LowerLetters[i])>> :
              i \in {j \in DOMAIN UpperLetters : UpperLetters[j] \in AcuteLetters}}
ToLowerRune(c) ==
    IF \E pr \in LowerOf : pr[1] = c
    THEN (CHOOSE pr \in LowerOf : pr[1] = c)[2]
    ELSE c

\* strings.ToLower
ToLower(str) == [i \in 1..Len(str) |-> ToLowerRune(str[i])]

\* norm.NFC.String: a letter followed by the combining accent becomes the
\* composed letter, when Unicode has one.
Composed ==
    {<<UpperLetters[i], Acute(UpperLetters[i])>> :
        i \in {j \in DOMAIN UpperLetters : UpperLetters[j] \in AcuteLetters}}
    \cup {<<LowerLetters[i], Acute(LowerLetters[i])>> :
              i \in {j \in DOMAIN UpperLetters : UpperLetters[j] \in AcuteLetters}}
RECURSIVE NFC(_)
NFC(str) ==
    IF Len(str) < 2 THEN str
    ELSE IF str[2] = CombiningAcute /\ \E pr \in Composed : pr[1] = str[1]
         THEN <<(CHOOSE pr \in Composed : pr[1] = str[1])[2]>>
              \o NFC(SubSeq(str, 3, Len(str)))
         ELSE <<str[1]>> \o NFC(Tail(str))

\* filepath.ToSlash
ToSlash(str) == [i \in 1..Len(str) |-> IF str[i] = Separator THEN "/" ELSE str[i]]

\* strings.HasPrefix
HasPrefix(str, prefix) ==
    Len(str) >= Len(prefix) /\ SubSeq(str, 1, Len(prefix)) = prefix

audioExtensions ==
    {<<".", "m", "p", "3">>,
     <<".", "m", "4", "a">>,
     <<".", "f", "l", "a", "c">>,
     <<".", "o", "g", "g">>,
     <<".", "o", "p", "u", "s">>,
     <<".", "w", "a", "v">>,
     <<".", "w", "m", "a">>,
     <<".", "a", "a", "c">>,
     <<".", "d", "s", "f">>,
     <<".", "a", "i", "f", "f">>,
     <<".", "a", "i", "f">>,
     <<".", "a", "p", "e">>,
     <<".", "w", "v">>,
     <<".", "m", "p", "c">>}
EveryExtension(ext) == TRUE
IsAudioExt(ext) == ext \in audioExtensions

\* filepath.IsAbs
IsAbs(path) == path # <<>> /\ path[1] = Separator

\* The elements of a clean path.
RECURSIVE Elements(_)
Elements(path) ==
    IF path = <<>> THEN <<>>
    ELSE IF path[1] = Separator THEN Elements(Tail(path))
    ELSE LET stop == IF \E i \in 1..Len(path) : path[i] = Separator
                     THEN (CHOOSE i \in 1..Len(path) :
                              /\ path[i] = Separator
                              /\ \A j \in 1..(i - 1) : path[j] # Separator) - 1
                     ELSE Len(path)
         IN <<SubSeq(path, 1, stop)>> \o Elements(SubSeq(path, stop + 1, Len(path)))

RECURSIVE Join(_)
Join(elems) ==
    IF elems = <<>> THEN <<>>
    ELSE IF Len(elems) = 1 THEN elems[1]
    ELSE elems[1] \o <<Separator>> \o Join(Tail(elems))

\* filepath.Rel(basepath, targpath) on clean paths: [ok, rel].
Rel(basepath, targpath) ==
    IF IsAbs(basepath) # IsAbs(targpath) THEN [ok |-> FALSE, rel |-> <<>>]
    ELSE LET b == Elements(basepath)
             t == Elements(targpath)
             same == {k \in 0..Min(Len(b), Len(t)) : SubSeq(b, 1, k) = SubSeq(t, 1, k)}
             k0 == CHOOSE k \in same : \A j \in same : j <= k
             ups == [i \in 1..(Len(b) - k0) |-> <<".", ".">>]
             rest == ups \o SubSeq(t, k0 + 1, Len(t))
         IN [ok |-> TRUE, rel |-> IF rest = <<>> THEN <<".">> ELSE Join(rest)]

\* filepath.Clean, on paths that have no "." or ".." element and no double
\* separator: a trailing separator goes, except on the root.
Clean(path) ==
    IF Len(path) > 1 /\ path[Len(path)] = Separator
    THEN SubSeq(path, 1, Len(path) - 1)
    ELSE path

----------------------------------------------------------------------------
(* dropbox.ComputeRemotePath (unnamed/part_007 339-368) *)

MaxLocal == 2
MaxRemote == 2

\* The directories of the machine: the Dropbox folder, a folder in it, a
\* symbolic link to that folder, and a sibling whose name begins with the
\* Dropbox folder's name.
RootDir == <<"/">>
DropboxDir == <<"/", "D", "r", "o", "p", "b", "o", "x">>
DropboxDirSlash == DropboxDir \o <<"/">>
MusicDir == DropboxDir \o <<"/", "M", "u", "s", "i", "c">>
LinkDir == <<"/", "m", "u", "s", "i", "c">>
SiblingDir == DropboxDir \o <<"2">>
GoneDir == <<"/", "g", "o", "n", "e">>
ExistingDirs == {RootDir, DropboxDir, MusicDir, SiblingDir}

PathErr == [ok |-> FALSE, path |-> <<>>]
PathOk(path) == [ok |-> TRUE, path |-> path]

\* filepath.EvalSymlinks: the clean path with links followed; an error for
\* a path that does not exist.
EvalSymlinks(path) ==
    LET c == Clean(path)
    IN IF c = LinkDir THEN PathOk(MusicDir)
       ELSE IF c \in ExistingDirs THEN PathOk(c)
       ELSE PathErr

\* strings.HasPrefix(resolvedLocal, prefix)
UnderRoot(resolvedLocal, resolvedRoot) ==
    HasPrefix(resolvedLocal, resolvedRoot \o <<Separator>>)

ComputeRemotePath(localAbs, dropboxRoot) ==
    LET l == EvalSymlinks(localAbs)
        r == EvalSymlinks(dropboxRoot)
    IN IF ~l.ok \/ ~r.ok THEN PathErr
       ELSE LET resolvedLocal == Clean(l.path)
                resolvedRoot == Clean(r.path)
            IN IF resolvedLocal = resolvedRoot THEN PathOk(<<>>)
               ELSE IF ~UnderRoot(resolvedLocal, resolvedRoot) THEN PathErr
               ELSE PathOk(ToSlash(SubSeq(resolvedLocal, Len(resolvedRoot) + 1,
                                          Len(resolvedLocal))))

----------------------------------------------------------------------------
(* matcher.Match (unnamed/part_004 76-122) *)

FileEntry(id, name, pathLower) ==
    [Tag |-> "file", ID |-> id, Name |-> name, PathLower |-> pathLower]
MatchedFile(localPath, e) == [LocalPath |-> localPath, Entry |-> e]

\* dbLookup after the first loop: a later entry replaces an earlier one with
\* the same PathLower.
dbLookupFirstWins(ents) ==
    [k \in {ents[i].PathLower : i \in DOMAIN ents} |->
        ents[CHOOSE i \in DOMAIN ents :
                /\ ents[i].PathLower = k
                /\ \A j \in DOMAIN ents : ents[j].PathLower = k => j >= i]]
dbLookupOf(ents) ==
    [k \in {ents[i].PathLower : i \in DOMAIN ents} |->
        ents[CHOOSE i \in DOMAIN ents :
                /\ ents[i].PathLower = k
                /\ \A j \in DOMAIN ents : ents[j].PathLower = k => j <= i]]

\* key := remotePrefix + "/" + strings.ToLower(filepath.ToSlash(nfcRel))
LookupKeyNoSeparator(remotePrefix, rel) ==
    remotePrefix \o ToLower(ToSlash(NFC(rel)))
LookupKey(remotePrefix, rel) ==
    remotePrefix \o <<"/">> \o ToLower(ToSlash(NFC(rel)))

\* One pass of the loop over localFiles.
LocalStep(localDir, remotePrefix, db, localPath) ==
    LET r == Rel(localDir, localPath)
        key == LookupKey(remotePrefix, r.rel)
    IN IF ~r.ok
       THEN [path |-> localPath, relOk |-> FALSE, key |-> <<>>, hit |-> FALSE]
       ELSE [path |-> localPath, relOk |-> TRUE, key |-> key,
             hit |-> key \in DOMAIN db]

\* result.UnmatchedLocal after the loop.
UnmatchedLocalRelOkOnly(steps) ==
    LET miss == SelectSeq(steps, LAMBDA st : st.relOk /\ ~st.hit)
    IN [i \in DOMAIN miss |-> miss[i].path]
UnmatchedLocalOf(steps) ==
    LET miss == SelectSeq(steps, LAMBDA st : ~st.hit)
    IN [i \in DOMAIN miss |-> miss[i].path]

\* mapOrder is the order in which the range over dbLookup yields its keys.
Match(localDir, remotePath, localFiles, ents, mapOrder) ==
    LET db == dbLookupOf(ents)
        remotePrefix == ToLower(remotePath)
        steps == [i \in DOMAIN localFiles |->
                     LocalStep(localDir, remotePrefix, db, localFiles[i])]
        hits == SelectSeq(steps, LAMBDA st : st.hit)
        matched == {hits[i].key : i \in DOMAIN hits}
        left == SelectSeq(mapOrder, LAMBDA k :
                    k \notin matched /\ IsAudioExt(ToLower(Ext(db[k].Name))))
    IN [Matched |-> [i \in DOMAIN hits |-> MatchedFile(hits[i].path, db[hits[i].key])],
        UnmatchedLocal |-> UnmatchedLocalOf(steps),
        UnmatchedDropbox |-> [i \in DOMAIN left |-> db[left[i]]]]

NoScanResult == [Matched |-> <<>>, UnmatchedLocal |-> <<>>, UnmatchedDropbox |-> <<>>]

\* The inputs: file names that differ in case or in the form of the accent.
SongUpper == <<"S", "o", "n", "g", ".", "M", "P", "3">>
SongLower == <<"s", "o", "n", "g">> \o DotMp3
CafeComposed == <<"c", "a", "f", "e-acute">> \o DotMp3
CafeDecomposed == <<"c", "a", "f", "e", CombiningAcute>> \o DotMp3
CoverJpg == <<"c", "o", "v", "e", "r", ".", "j", "p", "g">>

\* filepath.Join(dir, name)
JoinPath(dir, name) ==
    IF dir = RootDir THEN dir \o name ELSE dir \o <<Separator>> \o name

\* What ScanLocal can find under dir, and one path that is not absolute.
LocalPathsIn(dir) ==
    {JoinPath(dir, SongUpper), JoinPath(dir, CafeComposed),
     JoinPath(dir, CafeDecomposed), SongLower}

\* What the listing of the remote folder can hold.
RemoteEntriesIn(remotePath) ==
    LET at(name) == ToLower(remotePath) \o <<"/">> \o ToLower(name)
    IN {FileEntry("id:1", SongUpper, at(SongUpper)),
        FileEntry("id:2", SongLower, at(SongLower)),
        FileEntry("id:3", CafeComposed, at(CafeComposed)),
        FileEntry("id:4", CafeDecomposed, at(CafeDecomposed)),
        FileEntry("id:5", CoverJpg, at(CoverJpg))}

SeqsUpTo(S, len) == UNION {[1..k -> S] : k \in 0..len}
Orders(S) == {o \in [1..Cardinality(S) -> S] : \A k \in S : \E i \in DOMAIN o : o[i] = k}

\* The frame of ComputeRemotePath and Match.
NewMatch(absLocal, dropboxRoot) ==
    [pc |-> "path", localDir |-> absLocal, dropboxRoot |-> dropboxRoot,
     remotePath |-> PathErr, localFiles |-> <<>>, entries |-> <<>>,
     steps |-> <<>>, result |-> NoScanResult]
IdleMatch == [NewMatch(<<>>, <<>>) EXCEPT !.pc = "idle"]

----------------------------------------------------------------------------
(* resolveToken (cmd/main.go 317-353) and the token stage of main (63-86) *)

\* config.Load: the stored credentials, nil when the file is missing, nil
\* and an error when it cannot be read.
Credentials(appKey, appSecret, refreshToken) ==
    [nil |-> FALSE, AppKey |-> appKey, AppSecret |-> appSecret,
     RefreshToken |-> refreshToken]
NilCredentials == [Credentials("", "", "") EXCEPT !.nil = TRUE]
Loaded(creds, failed) == [creds |-> creds, failed |-> failed]
StoredLoads ==
    {Loaded(NilCredentials, FALSE), Loaded(NilCredentials, TRUE),
     Loaded(Credentials("ak-stored", "as-stored", "rt-stored"), FALSE),
     Loaded(Credentials("ak-stored", "as-stored", ""), FALSE)}

\* dropbox.RefreshAccessToken as main sees it: the token server accepts the
\* refresh tokens in server and answers with an access token for them.
AccessTokenOf(refreshToken) ==
    CASE refreshToken = "rt-flag" -> "at-flag"
      [] refreshToken = "rt-stored" -> "at-stored"
      [] OTHER -> "at-new"
TokenRet(token, err) == [token |-> token, err |-> err]
RefreshAccessToken(appKey, appSecret, refreshToken, server) ==
    IF refreshToken \in server
    THEN TokenRet(AccessTokenOf(refreshToken), "")
    ELSE TokenRet("", "token refresh failed")

\* appKey != "" && appSecret != "" && refreshToken != ""
AllPresentRefreshOnly(appKey, appSecret, refreshToken) == refreshToken # ""
AllPresent(appKey, appSecret, refreshToken) ==
    appKey # "" /\ appSecret # "" /\ refreshToken # ""

resolveToken(appKey, appSecret, refreshToken, directToken, stored, server) ==
    IF AllPresent(appKey, appSecret, refreshToken)
    THEN LET r == RefreshAccessToken(appKey, appSecret, refreshToken, server)
         IN IF r.err # "" THEN TokenRet("", "refreshing access token")
            ELSE TokenRet(r.token, "")
    ELSE LET creds == stored.creds
         IN IF ~creds.nil /\ AllPresent(creds.AppKey, creds.AppSecret, creds.RefreshToken)
            THEN LET r == RefreshAccessToken(creds.AppKey, creds.AppSecret,
                                             creds.RefreshToken, server)
                 IN IF r.err # ""
                    THEN TokenRet("", "refreshing access token with stored credentials")
                    ELSE TokenRet(r.token, "")
            ELSE IF directToken # "" THEN TokenRet(directToken, "")
            ELSE TokenRet("", "dropbox authentication required")

\* runAuth: the code exchange succeeds or not; on success the credentials
\* file holds the app key, the app secret and the new refresh token.
runAuth(appKey, appSecret, exchanged, stored) ==
    IF exchanged
    THEN [ok |-> TRUE, stored |-> Loaded(Credentials(appKey, appSecret, "rt-new"), FALSE)]
    ELSE [ok |-> FALSE, stored |-> stored]

\* main 63-86: resolveToken, and on an error at a terminal the interactive
\* setup followed by a second resolveToken without flags.  prompted is what
\* promptValue returns.
TokenStage(ak, as, rt, dt, stored, server, interactive, prompted, exchanged) ==
    LET first == resolveToken(ak, as, rt, dt, stored, server)
        ak2 == IF ak = "" THEN prompted ELSE ak
        as2 == IF as = "" THEN prompted ELSE as
        auth == runAuth(ak2, as2, exchanged, stored)
        second == resolveToken("", "", "", "", auth.stored, server)
    IN IF first.err = "" THEN first
       ELSE IF ~interactive THEN TokenRet("", "resolving Dropbox token")
       ELSE IF ~auth.ok THEN TokenRet("", "authorization failed")
       ELSE IF second.err # "" THEN TokenRet("", "resolving Dropbox token after setup")
       ELSE second

\* The frame of one resolveToken call.
NoTokenRet == TokenRet("", "not called")
NewResolve(ak, as, rt, dt, stored, server) ==
    [pc |-> "call", appKey |-> ak, appSecret |-> as, refreshToken |-> rt,
     directToken |-> dt, stored |-> stored, server |-> server, ret |-> NoTokenRet]
IdleResolve == [NewResolve("", "", "", "", Loaded(NilCredentials, FALSE), {})
                   EXCEPT !.pc = "idle"]

----------------------------------------------------------------------------
(* main's step 4 and backup.Write (cmd/main.go 216-251, pkg/backup) *)

MaxBuild == 2

\* tags.AudioMeta with every field; Duration in milliseconds, TrackNumber
\* -1 when the file has none.
AudioMeta(title, artist, album, albumArtist, genre, year, track, diskNo, ms) ==
    [Title |-> title, Artist |-> artist, Album |-> album,
     AlbumArtist |-> albumArtist, Genre |-> genre, Year |-> year,
     TrackNumber |-> track, DiskNumber |-> diskNo, Duration |-> ms]

\* A *string or *int field of backup.Item: <<>> is nil, <<v>> points to v.
GenrePtr(genre) == IF genre # "" THEN <<genre>> ELSE <<>>
TrackNumberPtrPositive(track) == IF track > 0 THEN <<track>> ELSE <<>>
TrackNumberPtr(track) == IF track >= 0 THEN <<track>> ELSE <<>>

\* main 219-240: the backup.Item of one matched file.
Item(accountID, mf, meta) ==
    [AccountID |-> accountID, Key |-> mf.Entry.ID, Name |-> mf.Entry.Name,
     Path |-> "", Service |-> "dropbox", Album |-> meta.Album,
     AlbumArtist |-> meta.AlbumArtist, Artist |-> meta.Artist,
     DiskNumber |-> meta.DiskNumber, Duration |-> meta.Duration,
     Genre |-> GenrePtr(meta.Genre), TagName |-> meta.Title,
     TrackNumber |-> TrackNumberPtr(meta.TrackNumber), Year |-> meta.Year]

\* main 216-241: items[i] is built from result.Matched[i] and metas[i].
BuildItems(accountID, matched, metas) ==
    [i \in 1..Len(matched) |-> Item(accountID, matched[i], metas[i])]

\* Duration.MarshalJSON: the seconds with one decimal place, as the pair
\* of the whole seconds and the tenth. The durations of the model are not
\* halfway between two tenths, where the binary fraction decides.
DurationJSON(ms) ==
    LET tenths == (ms + 50) \div 100
    IN  <<tenths \div 10, tenths % 10>>

\* json.Marshal of a backup.Item: a key for every field, except that a nil
\* Genre or TrackNumber is omitted (omitempty).
ItemKeys == {"account_id", "key", "name", "path", "service", "tag_album",
             "tag_albumArtist", "tag_artist", "tag_diskNumber",
             "tag_duration", "tag_name", "tag_year"}
MarshalItem(item) ==
    LET keys == ItemKeys
                  \cup (IF item.Genre # <<>> THEN {"tag_genre"} ELSE {})
                  \cup (IF item.TrackNumber # <<>> THEN {"tag_trackNumber"} ELSE {})
    IN  [k \in keys |->
            CASE k = "account_id" -> item.AccountID
              [] k = "key" -> item.Key
              [] k = "name" -> item.Name
              [] k = "path" -> item.Path
              [] k = "service" -> item.Service
              [] k = "tag_album" -> item.Album
              [] k = "tag_albumArtist" -> item.AlbumArtist
              [] k = "tag_artist" -> item.Artist
              [] k = "tag_diskNumber" -> item.DiskNumber
              [] k = "tag_duration" -> DurationJSON(item.Duration)
              [] k = "tag_genre" -> item.Genre[1]
              [] k = "tag_name" -> item.TagName
              [] k = "tag_trackNumber" -> item.TrackNumber[1]
              [] k = "tag_year" -> item.Year]

\* json.Marshal of the backup.Backup that main writes: the items and an
\* empty list of playlists.
MarshalBackup(its) ==
    [items |-> [i \in 1..Len(its) |-> MarshalItem(its[i])], playlists |-> <<>>]

NoDocument == [items |-> <<>>, playlists |-> <<>>]
NewBuild(accountID, matched, metas) ==
    [pc |-> "build", accountID |-> accountID, matched |-> matched,
     metas |-> metas, doc |-> NoDocument]
IdleBuild == [NewBuild("", <<>>, <<>>) EXCEPT !.pc = "idle"]

----------------------------------------------------------------------------
(* State of one program run *)

Idx == 1..Len(items)

IdleWorker == [pc |-> "idle", current |-> 0]

NoObs == [op |-> None]

NoStored == [k \in {} |-> [meta |-> ZeroMeta, info |-> [ok |-> FALSE, size |-> 0, mtime |-> 0]]]

\* stored: a Store has succeeded on this TagCache since it was loaded.
NoShadow == [mem |-> NoStored, file |-> NoStored, stored |-> FALSE]

\* The output file: absent, the complete document of a run, or what a
\* failed write has left of it (empty, or the beginning of a document).
NotWritten == [written |-> FALSE, partial |-> FALSE, items |-> <<>>]
PartialFile == [written |-> FALSE, partial |-> TRUE, items |-> <<>>]

\* The item lists main hands to Process: distinct paths in scan order.
ItemLists ==
    {SubSeq(PathSeq, 1, k) : k \in 0..(IF MaxItems < Len(PathSeq)
                                       THEN MaxItems ELSE Len(PathSeq))}

PathsOf(its) == {its[i] : i \in 1..Len(its)}

InitContents == {Tagged(<<"t">>), Panics}
ModContents == {Tagged(<<"u">>)}

InitFile(c) == [exists |-> TRUE, size |-> 1, mtime |-> 0, content |-> c]

\* The cache file an earlier run has saved for the same files: an entry for
\* every file whose tags it could read.
PriorCacheFile(fsys) ==
    LET ok == {p \in DOMAIN fsys : ReadFile(p, ContentOf(fsys, p))[2] = NoErr}
        ents == [p \in ok |-> entry(fileKey(Stat(fsys, p)),
                                    ReadFile(p, ContentOf(fsys, p))[1])]
    IN [kind |-> "json", doc |-> Marshal(ents)]

\* make([]R, total), make([]error, total), and the zero counters.
PoolReset(its) ==
    /\ loopI' = 1
    /\ results' = [i \in 1..Len(its) |-> ZeroMeta]
    /\ errors' = [i \in 1..Len(its) |-> NoErr]
    /\ done' = 0
    /\ wg' = 0
    /\ sem' = 0
    /\ wk' = [i \in 1..Len(its) |-> IdleWorker]
    /\ calls' = [i \in 1..Len(its) |-> 0]
    /\ fnRet' = [i \in 1..Len(its) |-> <<>>]
    /\ progressLog' = <<>>

InitAt(pc) ==
    /\ items \in ItemLists
    /\ n \in 1..MaxWorkers
    /\ mainPc = pc
    /\ loopI = 1
    /\ storeI = 1
    /\ results = [i \in 1..Len(items) |-> ZeroMeta]
    /\ errors = [i \in 1..Len(items) |-> NoErr]
    /\ done = 0
    /\ wg = 0
    /\ sem = 0
    /\ wk = [i \in 1..Len(items) |-> IdleWorker]
    /\ cancelled = FALSE
    /\ entries = NoEntries
    /\ dirty = FALSE
    /\ fs \in [PathsOf(items) -> {InitFile(c) : c \in InitContents}]
    /\ disk \in {AbsentFile, PriorCacheFile(fs)}
    /\ clock = 0
    /\ backupFile = NotWritten
    /\ run = 1
    /\ mods = 0
    /\ calls = [i \in 1..Len(items) |-> 0]
    /\ fnRet = [i \in 1..Len(items) |-> <<>>]
    /\ progressLog = <<>>
    /\ obs = NoObs
    /\ shadow = NoShadow
    /\ call = IdleCall
    /\ lf = IdleOp
    /\ scan = IdleMatch
    /\ tk = IdleResolve
    /\ warnings = <<>>
    /\ stages = <<>>
    /\ build = IdleBuild

\* The run as it stands when main reaches the cache load.
Init == InitAt("load")

----------------------------------------------------------------------------
(* main: load the tag cache (cmd/main.go 165-170) *)

MainLoad ==
    /\ mainPc = "load"
    /\ entries' = Load(disk)
    /\ dirty' = FALSE
    /\ mainPc' = "check"
    /\ UNCHANGED <<items, n, loopI, storeI, results, errors, done, wg, sem, wk,
                   cancelled, disk, fs, clock, backupFile, run, mods, calls,
                   fnRet, progressLog, obs, shadow, call, lf, scan, tk,
                   warnings, stages, build>>

----------------------------------------------------------------------------
(* worker.Process: the submission loop *)

\* ctx.Err() != nil
CtxErrOrItemFailed == cancelled \/ \E i \in Idx : errors[i] # NoErr
CtxErr == cancelled

\* The send on the semaphore channel can proceed.
SemHasSlotAlways == TRUE
SemHasSlot == sem < n

\* wg.Wait() returns.
WgWaitNoWait == TRUE
WgWaitReturns == wg = 0

\* The slot a goroutine writes: its own idx parameter.
WriteIdxLoopVar(idx) == IF loopI <= Len(items) THEN loopI ELSE Len(items)
WriteIdx(idx) == idx

\* The value of done.Add(1), given the counter before the call.
AddResultOld(old) == old
AddResult(old) == old + 1

\* Top of the loop: the range is exhausted or the context is cancelled
\* (break), or wg.Add(1) and on to the semaphore.
ProcCheck ==
    /\ mainPc = "check"
    /\ IF loopI > Len(items) \/ CtxErr
       THEN /\ mainPc' = "wait"
            /\ wg' = wg
       ELSE /\ mainPc' = "acquire"
            /\ wg' = wg + 1
    /\ UNCHANGED <<items, n, loopI, storeI, results, errors, done, sem, wk,
                   cancelled, entries, dirty, disk, fs, clock, backupFile, run,
                   mods, calls, fnRet, progressLog, obs, shadow, call, lf, scan, tk,
                   warnings, stages, build>>

\* sem <- struct{}{} and the go statement.
ProcSubmit ==
    /\ mainPc = "acquire"
    /\ SemHasSlot
    /\ sem' = sem + 1
    /\ wk' = [wk EXCEPT ![loopI].pc = "start"]
    /\ loopI' = loopI + 1
    /\ mainPc' = "check"
    /\ UNCHANGED <<items, n, storeI, results, errors, done, wg, cancelled,
                   entries, dirty, disk, fs, clock, backupFile, run, mods,
                   calls, fnRet, progressLog, obs, shadow, call, lf, scan, tk,
                   warnings, stages, build>>

\* main 193-198: the files with a non-nil error, in the order of the
\* warnings logged for them.
Warned(its, errs) ==
    LET bad == SelectSeq([i \in 1..Len(its) |-> i], LAMBDA i : errs[i] # NoErr)
    IN [k \in DOMAIN bad |-> its[bad[k]]]

\* wg.Wait(), the return to main, and main's loop over the errors.
ProcWait ==
    /\ mainPc = "wait"
    /\ WgWaitReturns
    /\ storeI' = 1
    /\ mainPc' = IF Len(items) = 0 THEN "save" ELSE "store"
    /\ warnings' = Warned(items, errors)
    /\ UNCHANGED <<items, n, loopI, results, errors, done, wg, sem, wk,
                   cancelled, entries, dirty, disk, fs, clock, backupFile, run,
                   mods, calls, fnRet, progressLog, obs, shadow, call, lf, scan, tk,
                   stages, build>>

----------------------------------------------------------------------------
(* worker.Process: one goroutine, and the fn main passes *)

\* fn returns <<r, err>> to goroutine i, which writes its slots.
FnReturns(i, r, err) ==
    /\ fnRet' = [fnRet EXCEPT ![i] = <<r, err>>]
    /\ results' = [results EXCEPT ![WriteIdx(i)] = r]
    /\ errors' = [errors EXCEPT ![WriteIdx(i)] = err]

\* The goroutine calls fn.
WorkerStart(i) ==
    /\ wk[i].pc = "start"
    /\ wk' = [wk EXCEPT ![i].pc = "lookup"]
    /\ calls' = [calls EXCEPT ![i] = @ + 1]
    /\ UNCHANGED <<items, n, mainPc, loopI, storeI, results, errors, done, wg,
                   sem, cancelled, entries, dirty, disk, fs, clock, backupFile,
                   run, mods, fnRet, progressLog, obs, shadow, call, lf, scan, tk,
                   warnings, stages, build>>

\* fn: tagCache.Lookup(mf.LocalPath); a hit is fn's result.
WorkerLookup(i) ==
    /\ wk[i].pc = "lookup"
    /\ LET path == items[i]
           res == Lookup(entries, fs, path)
       IN /\ IF res[2]
             THEN /\ FnReturns(i, res[1], NoErr)
                  /\ wk' = [wk EXCEPT ![i].pc = "add"]
             ELSE /\ wk' = [wk EXCEPT ![i].pc = "read"]
                  /\ UNCHANGED <<fnRet, results, errors>>
    /\ UNCHANGED <<items, n, mainPc, loopI, storeI, done, wg, sem, cancelled,
                   entries, dirty, disk, fs, clock, backupFile, run, mods,
                   calls, progressLog, obs, shadow, call, lf, scan, tk,
                   warnings, stages, build>>

\* fn: tags.ReadFile(mf.LocalPath) on the file as it is now.
WorkerRead(i) ==
    /\ wk[i].pc = "read"
    /\ LET res == ReadFile(items[i], ContentOf(fs, items[i]))
       IN FnReturns(i, res[1], res[2])
    /\ wk' = [wk EXCEPT ![i].pc = "add"]
    /\ UNCHANGED <<items, n, mainPc, loopI, storeI, done, wg, sem, cancelled,
                   entries, dirty, disk, fs, clock, backupFile, run, mods,
                   calls, progressLog, obs, shadow, call, lf, scan, tk,
                   warnings, stages, build>>

\* current := int(done.Add(1))
WorkerAdd(i) ==
    /\ wk[i].pc = "add"
    /\ done' = done + 1
    /\ wk' = [wk EXCEPT ![i].pc = "progress", ![i].current = AddResult(done)]
    /\ UNCHANGED <<items, n, mainPc, loopI, storeI, results, errors, wg, sem,
                   cancelled, entries, dirty, disk, fs, clock, backupFile, run,
                   mods, calls, fnRet, progressLog, obs, shadow, call, lf, scan, tk,
                   warnings, stages, build>>

\* progress(current, total)
WorkerProgress(i) ==
    /\ wk[i].pc = "progress"
    /\ progressLog' = Append(progressLog, <<wk[i].current, Len(items)>>)
    /\ wk' = [wk EXCEPT ![i].pc = "exit"]
    /\ UNCHANGED <<items, n, mainPc, loopI, storeI, results, errors, done, wg,
                   sem, cancelled, entries, dirty, disk, fs, clock, backupFile,
                   run, mods, calls, fnRet, obs, shadow, call, lf, scan, tk,
                   warnings, stages, build>>

\* defer func() { <-sem }(): one token leaves the channel.
ReleaseSlotKept(tokens) == tokens
ReleaseSlot(tokens) == tokens - 1

\* The deferred calls run last-in first-out: first <-sem (part_003:38),
\* which lets main start the next goroutine.
WorkerRelease(i) ==
    /\ wk[i].pc = "exit"
    /\ sem' = ReleaseSlot(sem)
    /\ wk' = [wk EXCEPT ![i].pc = "released"]
    /\ UNCHANGED <<items, n, mainPc, loopI, storeI, results, errors, done, wg,
                   cancelled, entries, dirty, disk, fs, clock, backupFile, run,
                   mods, calls, fnRet, progressLog, obs, shadow, call, lf, scan, tk,
                   warnings, stages, build>>

\* Then wg.Done() (part_003:37).
WorkerDone(i) ==
    /\ wk[i].pc = "released"
    /\ wg' = wg - 1
    /\ wk' = [wk EXCEPT ![i].pc = "finished"]
    /\ UNCHANGED <<items, n, mainPc, loopI, storeI, results, errors, done, sem,
                   cancelled, entries, dirty, disk, fs, clock, backupFile, run,
                   mods, calls, fnRet, progressLog, obs, shadow, call, lf, scan, tk,
                   warnings, stages, build>>

----------------------------------------------------------------------------
(* main after the pool: update and save the cache, write the backup *)

\* One round of the loop over result.Matched: Store if errs[i] == nil.
MainStore ==
    /\ mainPc = "store"
    /\ storeI <= Len(items)
    /\ IF errors[storeI] = NoErr
       THEN /\ entries' = StoreEntries(entries, fs, items[storeI], results[storeI])
            /\ dirty' = StoreDirty(dirty, fs, items[storeI])
       ELSE UNCHANGED <<entries, dirty>>
    /\ storeI' = storeI + 1
    /\ mainPc' = IF storeI = Len(items) THEN "save" ELSE "store"
    /\ UNCHANGED <<items, n, loopI, results, errors, done, wg, sem, wk,
                   cancelled, disk, fs, clock, backupFile, run, mods, calls,
                   fnRet, progressLog, obs, shadow, call, lf, scan, tk,
                   warnings, stages, build>>

\* tagCache.Save(); an error is only logged.
MainSave ==
    /\ mainPc = "save"
    /\ \E outcome \in SaveOutcomes : disk' = Save(disk, entries, dirty, outcome)
    /\ mainPc' = "write"
    /\ UNCHANGED <<items, n, loopI, storeI, results, errors, done, wg, sem, wk,
                   cancelled, entries, dirty, fs, clock, backupFile, run, mods,
                   calls, fnRet, progressLog, obs, shadow, call, lf, scan, tk,
                   warnings, stages, build>>

\* The backup item main builds from a matched file and its metadata.
BuildItem(path, meta) ==
    [LocalPath |-> path, Artist |-> meta.Artist, TagName |-> meta.Title,
     TrackNumber |-> IF meta.TrackNumber >= 0 THEN <<meta.TrackNumber>> ELSE <<>>]

\* backup.Write: os.WriteFile opens the file with O_TRUNC, so the file
\* is as it was when the open fails, and cut short when the write fails
\* after the open.
WriteOutcomes == {"ok", "openfail", "writefail"}
Write(file, its, outcome) ==
    IF outcome = "ok" THEN [written |-> TRUE, partial |-> FALSE, items |-> its]
    ELSE IF outcome = "openfail" THEN file
    ELSE PartialFile

\* Build the items and backup.Write; a write error ends the run.
MainWrite ==
    /\ mainPc = "write"
    /\ \E outcome \in WriteOutcomes :
          backupFile' = Write(backupFile,
                              [i \in Idx |-> BuildItem(items[i], results[i])],
                              outcome)
    /\ mainPc' = "done"
    /\ UNCHANGED <<items, n, loopI, storeI, results, errors, done, wg, sem, wk,
                   cancelled, entries, dirty, disk, fs, clock, run, mods,
                   calls, fnRet, progressLog, obs, shadow, call, lf, scan, tk,
                   warnings, stages, build>>

\* The program is started again on the same folder.
NextRun ==
    /\ mainPc = "done"
    /\ run < MaxRuns
    /\ run' = run + 1
    /\ mainPc' = "load"
    /\ cancelled' = FALSE
    /\ storeI' = 1
    /\ PoolReset(items)
    /\ warnings' = <<>>
    /\ UNCHANGED <<items, n, entries, dirty, disk, fs, clock, backupFile, mods,
                   obs, shadow, call, lf, scan, tk,
                   stages, build>>

----------------------------------------------------------------------------
(* The environment *)

\* os.Interrupt cancels the context of signal.NotifyContext.
Interrupt ==
    /\ mainPc \in {"load", "check", "acquire", "wait"}
    /\ ~cancelled
    /\ cancelled' = TRUE
    /\ UNCHANGED <<items, n, mainPc, loopI, storeI, results, errors, done, wg,
                   sem, wk, entries, dirty, disk, fs, clock, backupFile, run,
                   mods, calls, fnRet, progressLog, obs, shadow, call, lf, scan, tk,
                   warnings, stages, build>>

\* Another program rewrites an audio file: new tags, new size, new
\* modification time.
ModifyFile(path) ==
    /\ mainPc # "done"
    /\ mods < MaxMods
    /\ fs[path].exists
    /\ \E c \in ModContents :
          fs' = [fs EXCEPT ![path] = [exists |-> TRUE, size |-> 2,
                                      mtime |-> clock + 1, content |-> c]]
    /\ clock' = clock + 1
    /\ mods' = mods + 1
    /\ UNCHANGED <<items, n, mainPc, loopI, storeI, results, errors, done, wg,
                   sem, wk, cancelled, entries, dirty, disk, backupFile, run,
                   calls, fnRet, progressLog, obs, shadow, call, lf, scan, tk,
                   warnings, stages, build>>

\* Another program deletes an audio file.
DeleteFile(path) ==
    /\ mainPc # "done"
    /\ mods < MaxMods
    /\ fs[path].exists
    /\ fs' = [fs EXCEPT ![path].exists = FALSE]
    /\ mods' = mods + 1
    /\ UNCHANGED <<items, n, mainPc, loopI, storeI, results, errors, done, wg,
                   sem, wk, cancelled, entries, dirty, disk, clock, backupFile,
                   run, calls, fnRet, progressLog, obs, shadow, call, lf, scan, tk,
                   warnings, stages, build>>

----------------------------------------------------------------------------
(* One run of the program, which may be interrupted, on files that stay as  *)
(* they are                                                                *)

Next ==
    \/ MainLoad
    \/ ProcCheck
    \/ ProcSubmit
    \/ ProcWait
    \/ \E i \in Idx : WorkerStart(i)
    \/ \E i \in Idx : WorkerLookup(i)
    \/ \E i \in Idx : WorkerRead(i)
    \/ \E i \in Idx : WorkerAdd(i)
    \/ \E i \in Idx : WorkerProgress(i)
    \/ \E i \in Idx : WorkerRelease(i)
    \/ \E i \in Idx : WorkerDone(i)
    \/ MainStore
    \/ MainSave
    \/ MainWrite
    \/ Interrupt

Spec == Init /\ [][Next]_vars

\* A step of worker.Process: of its loop, of its wait, or of a goroutine.
PoolStep ==
    \/ ProcCheck
    \/ ProcSubmit
    \/ ProcWait
    \/ \E i \in Idx : WorkerStart(i)
    \/ \E i \in Idx : WorkerLookup(i)
    \/ \E i \in Idx : WorkerRead(i)
    \/ \E i \in Idx : WorkerAdd(i)
    \/ \E i \in Idx : WorkerProgress(i)
    \/ \E i \in Idx : WorkerRelease(i)
    \/ \E i \in Idx : WorkerDone(i)

\* The run under the Go scheduler: a goroutine that can take a step is
\* eventually run, and fn (a cache lookup or ReadFile) returns.
\* No earlier run has left a cache file, so fn reads every file; what fn
\* returns has no part in the scheduling: the library panics on the first
\* file and reads the others.
InitFair ==
    /\ Init
    /\ disk = AbsentFile
    /\ \A i \in Idx : (ContentOf(fs, items[i]) = Panics) <=> (i = 1)
SpecFair == InitFair /\ [][Next]_vars /\ WF_vars(MainLoad) /\ WF_vars(PoolStep)

\* One run after another on the same folder, while other programs change
\* the files; nobody interrupts the program.
NextReruns ==
    \/ MainLoad
    \/ ProcCheck
    \/ ProcSubmit
    \/ ProcWait
    \/ \E i \in Idx : WorkerStart(i)
    \/ \E i \in Idx : WorkerLookup(i)
    \/ \E i \in Idx : WorkerRead(i)
    \/ \E i \in Idx : WorkerAdd(i)
    \/ \E i \in Idx : WorkerProgress(i)
    \/ \E i \in Idx : WorkerRelease(i)
    \/ \E i \in Idx : WorkerDone(i)
    \/ MainStore
    \/ MainSave
    \/ MainWrite
    \/ NextRun
    \/ \E p \in DOMAIN fs : ModifyFile(p)
    \/ \E p \in DOMAIN fs : DeleteFile(p)

SpecReruns == Init /\ [][NextReruns]_vars

----------------------------------------------------------------------------
(* The cache on its own: any sequence of Load, Lookup, Store and Save, on   *)
(* files that change between the calls.                                    *)

PathBad == <<"/", InvalidByte>> \o DotMp3
CachePaths == {Path1, PathBad}

\* The file the environment changes, and the modification times it gives it.
ChangingPaths == {Path1}
MTimes == {0, 1}

MetaT == [Title |-> <<"t">>, Artist |-> Unknown, TrackNumber |-> 3]
MetaBad == [Title |-> <<InvalidByte>>, Artist |-> Unknown, TrackNumber |-> -1]
CacheMetas == {MetaT, MetaBad}

InitCache ==
    /\ items = <<>>
    /\ n = 1
    /\ mainPc = "api"
    /\ loopI = 1
    /\ storeI = 1
    /\ results = <<>>
    /\ errors = <<>>
    /\ done = 0
    /\ wg = 0
    /\ sem = 0
    /\ wk = <<>>
    /\ cancelled = FALSE
    /\ entries = Load(AbsentFile)
    /\ dirty = FALSE
    /\ disk = AbsentFile
    /\ fs = [p \in CachePaths |-> InitFile(Tagged(<<"t">>))]
    /\ clock = 0
    /\ backupFile = NotWritten
    /\ run = 1
    /\ mods = 0
    /\ calls = <<>>
    /\ fnRet = <<>>
    /\ progressLog = <<>>
    /\ obs = NoObs
    /\ shadow = NoShadow
    /\ call = IdleCall
    /\ lf = IdleOp
    /\ scan = IdleMatch
    /\ tk = IdleResolve
    /\ warnings = <<>>
    /\ stages = <<>>
    /\ build = IdleBuild

runVars == <<items, n, mainPc, loopI, storeI, results, errors, done, wg, sem,
             wk, cancelled, backupFile, run, calls, fnRet, progressLog,
             call, lf, scan, tk,
                   warnings, stages, build>>

\* What the last cache call looked like: the call, what it found on the file
\* system, what it returned, and the cache before it.  The observation is
\* dropped as soon as the environment changes something, so that it always
\* sits next to the cache as the call left it.
Observe(op, path, ret, err) ==
    [op |-> op, path |-> path, found |-> ret[2], meta |-> ret[1], err |-> err,
     info |-> Stat(fs, path),
     had |-> path \in DOMAIN entries,
     key |-> IF path \in DOMAIN entries THEN entries[path].Key ELSE ZeroKey,
     stored |-> IF path \in DOMAIN entries THEN entries[path].Meta ELSE ZeroMeta,
     before |-> <<entries, dirty, disk>>]

\* tc.Lookup(path)
CacheLookup(path) ==
    /\ mainPc = "api"
    /\ UNCHANGED <<entries, dirty, disk, fs, clock, mods, shadow>>
    /\ obs' = Observe("lookup", path, Lookup(entries, fs, path), NoErr)
    /\ UNCHANGED runVars

\* tc.Store(path, meta)
CacheStore(path, meta) ==
    /\ mainPc = "api"
    /\ entries' = StoreEntries(entries, fs, path, meta)
    /\ dirty' = StoreDirty(dirty, fs, path)
    /\ UNCHANGED <<disk, fs, clock, mods>>
    /\ obs' = Observe("store", path, <<meta, FALSE>>, NoErr)
    /\ shadow' = IF Stat(fs, path).ok
                 THEN [shadow EXCEPT !.mem =
                         [k \in DOMAIN shadow.mem \cup {path} |->
                            IF k = path
                            THEN [meta |-> meta, info |-> Stat(fs, path)]
                            ELSE shadow.mem[k]],
                                     !.stored = TRUE]
                 ELSE shadow
    /\ UNCHANGED runVars

\* tc.Save()
CacheSave ==
    /\ mainPc = "api"
    /\ UNCHANGED <<entries, dirty, fs, clock, mods>>
    /\ \E outcome \in SaveOutcomes :
          /\ disk' = Save(disk, entries, dirty, outcome)
          /\ obs' = Observe("save", Path1, <<ZeroMeta, FALSE>>, SaveErr(dirty, outcome))
                     @@ [sys |-> SaveSyscalls(dirty, outcome)]
          /\ shadow' = IF ~dirty \/ outcome \in {"mkdirfail", "openfail"}
                       THEN shadow
                       ELSE IF outcome = "ok"
                       THEN [shadow EXCEPT !.file = shadow.mem]
                       ELSE [shadow EXCEPT !.file = NoStored]
    /\ UNCHANGED runVars

\* tc = Load(path)
CacheLoad ==
    /\ mainPc = "api"
    /\ entries' = Load(disk)
    /\ dirty' = FALSE
    /\ UNCHANGED <<disk, fs, clock, mods>>
    /\ obs' = Observe("load", Path1, <<ZeroMeta, FALSE>>, NoErr)
    /\ shadow' = [shadow EXCEPT !.mem = shadow.file, !.stored = FALSE]
    /\ UNCHANGED runVars

\* Another program changes an audio file so that its size, its modification
\* time, or both differ.
ChangeFile(path) ==
    /\ mainPc = "api"
    /\ mods < MaxMods
    /\ \E sz \in Sizes, mt \in MTimes :
          /\ <<sz, mt>> # <<fs[path].size, fs[path].mtime>> \/ ~fs[path].exists
          /\ fs' = [fs EXCEPT ![path] = [exists |-> TRUE, size |-> sz,
                                         mtime |-> mt, content |-> @.content]]
    /\ mods' = mods + 1
    /\ obs' = NoObs
    /\ UNCHANGED <<entries, dirty, disk, clock, shadow>>
    /\ UNCHANGED runVars

\* Another program deletes an audio file.
RemoveFile(path) ==
    /\ mainPc = "api"
    /\ fs[path].exists
    /\ mods < MaxMods
    /\ fs' = [fs EXCEPT ![path].exists = FALSE]
    /\ mods' = mods + 1
    /\ obs' = NoObs
    /\ UNCHANGED <<entries, dirty, disk, clock, shadow>>
    /\ UNCHANGED runVars

\* The cache file is damaged behind the program's back: it becomes
\* unreadable, or its text no longer decodes into the entry map (the decoder
\* may have filled in the entries that precede the damage).
DamageCacheFile ==
    /\ mainPc = "api"
    /\ disk.kind = "json"
    /\ \/ disk' = [kind |-> "unreadable", doc |-> NoEntries]
       \/ disk' = [kind |-> "malformed", doc |-> disk.doc]
    /\ shadow' = [shadow EXCEPT !.file = NoStored]
    /\ obs' = NoObs
    /\ UNCHANGED <<entries, dirty, fs, clock, mods>>
    /\ UNCHANGED runVars

NextCache ==
    \/ \E p \in CachePaths : CacheLookup(p)
    \/ \E p \in CachePaths, m \in CacheMetas : CacheStore(p, m)
    \/ CacheSave
    \/ CacheLoad
    \/ \E p \in ChangingPaths : ChangeFile(p)
    \/ \E p \in ChangingPaths : RemoveFile(p)
    \/ DamageCacheFile

SpecCache == InitCache /\ [][NextCache]_vars

----------------------------------------------------------------------------
(* Client.apiCall *)

progVars == <<items, n, mainPc, loopI, storeI, results, errors, done, wg, sem,
              wk, entries, dirty, disk, fs, clock, backupFile, run, mods,
              calls, fnRet, progressLog, obs, shadow, scan, tk, warnings,
              stages, build>>

\* <-ctx.Done() can proceed.
CtxDoneNever(c) == FALSE
CtxDoneReady(c) == c

\* The 429 responses the server still gives to the running call.
RetryBound == IF lf.op = "ListFolder" THEN MaxPageRetries ELSE MaxRetries

\* client.go:122-132.  http.NewRequestWithContext succeeds; c.http.Do sends
\* the request unless the context is already done, in which case the
\* transport returns the context's error before it writes anything.
ApiSend ==
    /\ call.pc = "send"
    /\ call' = IF cancelled
               THEN [call EXCEPT !.pc = "done", !.ret = Ret("errDo", 1, NoBody)]
               ELSE [call EXCEPT !.pc = "await", !.sent = @ + 1]
    /\ UNCHANGED <<cancelled, lf, scan, tk,
                   warnings, stages, build>>
    /\ UNCHANGED progVars

\* c.http.Do returns an error after the request was sent: the connection
\* failed, the client's timeout expired, or the context was cancelled.
ApiDoFails ==
    /\ call.pc = "await"
    /\ call' = [call EXCEPT !.pc = "done",
                            !.ret = Ret("errDo", IF cancelled THEN 1 ELSE 0, NoBody)]
    /\ UNCHANGED <<cancelled, lf, scan, tk,
                   warnings, stages, build>>
    /\ UNCHANGED progVars

\* c.http.Do returns a response and the switch on its status runs
\* (client.go:134-166), up to the select of the 429 branch.
ApiRespond(status, hdr, body) ==
    /\ call.pc = "await"
    /\ Case(status) = "ratelimited" => Len(call.resps) < RetryBound
    /\ LET got == [call EXCEPT !.resps = Append(@, status),
                               !.last = Ret("resp", status, body)]
           wait == Wait(call.backoff, hdr)
           own == ~(hdr # <<>> /\ Atoi(hdr).ok)
       IN call' =
            CASE Case(status) = "ok" ->
                   [got EXCEPT !.pc = "done", !.ret = Ret("ok", status, body)]
              [] Case(status) = "unauthorized" ->
                   [got EXCEPT !.pc = "done", !.ret = Ret("err401", status, NoBody)]
              [] Case(status) = "ratelimited" ->
                   [got EXCEPT !.pc = "sleep", !.hdr = hdr, !.wait = wait,
                               !.elapsed = (wait <= 0),
                               !.bare = @ /\ hdr = <<>>,
                               !.maxWait = IF wait > @ THEN wait ELSE @,
                               !.maxOwnWait = IF own /\ wait > @ THEN wait ELSE @]
              [] OTHER ->
                   [got EXCEPT !.pc = "done", !.ret = Ret("errStatus", status, body)]
    /\ UNCHANGED <<cancelled, lf, scan, tk,
                   warnings, stages, build>>
    /\ UNCHANGED progVars

\* The timer of time.After(wait) fires.  No time passes while a case of the
\* select can proceed.
TimerFires ==
    /\ call.pc = "sleep"
    /\ ~call.elapsed
    /\ ~CtxDoneReady(cancelled)
    /\ call' = [call EXCEPT !.elapsed = TRUE]
    /\ UNCHANGED <<cancelled, lf, scan, tk,
                   warnings, stages, build>>
    /\ UNCHANGED progVars

\* case <-ctx.Done(): return nil, ctx.Err()
SelectDone ==
    /\ call.pc = "sleep"
    /\ CtxDoneReady(cancelled)
    /\ call' = [call EXCEPT !.pc = "done", !.ret = Ret("errCtx", 1, NoBody)]
    /\ UNCHANGED <<cancelled, lf, scan, tk,
                   warnings, stages, build>>
    /\ UNCHANGED progVars

\* case <-time.After(wait): the backoff doubles and the loop sends again.
SelectTimer ==
    /\ call.pc = "sleep"
    /\ call.elapsed
    /\ call' = [call EXCEPT !.pc = "send", !.backoff = NextBackoff(@)]
    /\ UNCHANGED <<cancelled, lf, scan, tk,
                   warnings, stages, build>>
    /\ UNCHANGED progVars

\* The process is interrupted while a function of the client runs.
ApiCancel ==
    /\ ~cancelled
    /\ lf.pc \notin {"idle", "done"}
    /\ cancelled' = TRUE
    /\ call' = IF call.pc = "sleep" /\ ~call.elapsed
               THEN [call EXCEPT !.asleepAtCancel = TRUE, !.sentAtCancel = call.sent]
               ELSE call
    /\ UNCHANGED lf
    /\ UNCHANGED progVars

----------------------------------------------------------------------------
(* GetAccountID, ListFolder *)

Return(err, val) == [lf EXCEPT !.pc = "done", !.err = err, !.val = val]

\* c.apiCall(ctx, endpoint, body)
StartCall(pc, endpoint, body) ==
    /\ call' = NewCall(endpoint, body)
    /\ lf' = [lf EXCEPT !.pc = pc,
                        !.reqs = Append(@, [endpoint |-> endpoint, body |-> body])]

GaStart ==
    /\ lf.op = "GetAccountID" /\ lf.pc = "start"
    /\ StartCall("account", "/users/get_current_account", [null |-> TRUE])
    /\ UNCHANGED cancelled
    /\ UNCHANGED progVars

\* client.go:42-56
GaReturns ==
    /\ lf.op = "GetAccountID" /\ lf.pc = "account"
    /\ call.pc = "done"
    /\ lf' = IF call.ret.kind # "ok" THEN Return(call.ret, "")
             ELSE IF ~call.ret.body.valid THEN Return(Ret("errDecode", 0, NoBody), "")
             ELSE IF call.ret.body.doc.account_id = ""
                  THEN Return(Ret("errEmpty", 0, NoBody), "")
             ELSE Return(NilErr, call.ret.body.doc.account_id)
    /\ call' = IdleCall
    /\ UNCHANGED cancelled
    /\ UNCHANGED progVars

\* client.go:62-70
LfStart ==
    /\ lf.op = "ListFolder" /\ lf.pc = "start"
    /\ \E remotePath \in {"", "/music"} :
          StartCall("first", "/files/list_folder", ListRequest(remotePath))
    /\ UNCHANGED cancelled
    /\ UNCHANGED progVars

\* client.go:72, 78, 91, 97: `return nil, err`; the entries of the earlier
\* pages are not returned.
PartialListing(acc) == acc
ListingOnError(acc) == <<>>

\* A page request has returned: client.go:71-82 for the first page,
\* client.go:88-101 for a continuation page.
LfPageReturns ==
    /\ lf.op = "ListFolder" /\ lf.pc \in {"first", "continue"}
    /\ call.pc = "done"
    /\ lf' = IF call.ret.kind # "ok" THEN Return(call.ret, ListingOnError(lf.entries))
             ELSE IF ~call.ret.body.valid
                  THEN Return(Ret("errDecode", 0, NoBody), ListingOnError(lf.entries))
             ELSE [lf EXCEPT !.pc = "loop",
                             !.resp = call.ret.body.doc,
                             !.entries = @ \o filterFiles(call.ret.body.doc.Entries),
                             !.pages = Append(@, call.ret.body.doc)]
    /\ call' = IdleCall
    /\ UNCHANGED cancelled
    /\ UNCHANGED progVars

\* for resp.HasMore { ... c.apiCall(ctx, "/files/list_folder/continue", ...) }
\* and, after the loop, return entries, nil.
LfLoop ==
    /\ lf.op = "ListFolder" /\ lf.pc = "loop"
    /\ IF lf.resp.HasMore
       THEN StartCall("continue", "/files/list_folder/continue",
                      ContinueRequest(lf.resp, lf.pages))
       ELSE /\ lf' = Return(NilErr, lf.entries)
            /\ UNCHANGED call
    /\ UNCHANGED cancelled
    /\ UNCHANGED progVars

----------------------------------------------------------------------------
(* refreshAccessToken, exchangeAuthorizationCode *)

OAuthOps == {"refreshAccessToken", "exchangeAuthorizationCode"}

\* The value returned next to an error.
NoTokens(op) == IF op = "refreshAccessToken" THEN "" ELSE <<"", "">>

\* The checks on the decoded token response: the error, or "nil".
CheckTokensAccessOnly(op, tok) ==
    IF tok.access_token = "" THEN "errEmptyAccess" ELSE "nil"
CheckTokens(op, tok) ==
    IF op = "exchangeAuthorizationCode" /\ tok.refresh_token = ""
    THEN "errEmptyRefresh"
    ELSE IF tok.access_token = "" THEN "errEmptyAccess"
    ELSE "nil"

\* http.NewRequestWithContext and http.DefaultClient.Do, up to the request
\* being written; with a context that is already done nothing is sent.
OAuthSend ==
    /\ lf.op \in OAuthOps /\ lf.pc = "start"
    /\ lf' = IF cancelled
             THEN Return(Ret("errDo", 1, NoBody), NoTokens(lf.op))
             ELSE [lf EXCEPT !.pc = "await", !.sent = @ + 1]
    /\ UNCHANGED <<cancelled, call>>
    /\ UNCHANGED progVars

OAuthDoFails ==
    /\ lf.op \in OAuthOps /\ lf.pc = "await"
    /\ lf' = Return(Ret("errDo", IF cancelled THEN 1 ELSE 0, NoBody), NoTokens(lf.op))
    /\ UNCHANGED <<cancelled, call>>
    /\ UNCHANGED progVars

\* The response has arrived: the status check, the decoding and the checks
\* on the tokens.
OAuthRespond(status, body) ==
    /\ lf.op \in OAuthOps /\ lf.pc = "await"
    /\ LET got == [lf EXCEPT !.last = Ret("resp", status, body)]
           fail(e) == [got EXCEPT !.pc = "done", !.err = e, !.val = NoTokens(lf.op)]
       IN lf' =
            IF status # StatusOK THEN fail(Ret("errStatus", status, body))
            ELSE IF ~body.valid THEN fail(Ret("errDecode", 0, NoBody))
            ELSE IF CheckTokens(lf.op, body.doc) # "nil"
                 THEN fail(Ret(CheckTokens(lf.op, body.doc), 0, NoBody))
            ELSE [got EXCEPT !.pc = "done", !.err = NilErr,
                             !.val = IF lf.op = "refreshAccessToken"
                                     THEN body.doc.access_token
                                     ELSE <<body.doc.refresh_token,
                                            body.doc.access_token>>]
    /\ UNCHANGED <<cancelled, call>>
    /\ UNCHANGED progVars

----------------------------------------------------------------------------
(* One call of a function of the client *)

ClientOps == {"GetAccountID", "ListFolder"} \cup OAuthOps

InitApi ==
    /\ items = <<>>
    /\ n = 1
    /\ mainPc = "dropbox"
    /\ loopI = 1
    /\ storeI = 1
    /\ results = <<>>
    /\ errors = <<>>
    /\ done = 0
    /\ wg = 0
    /\ sem = 0
    /\ wk = <<>>
    /\ cancelled = FALSE
    /\ entries = NoEntries
    /\ dirty = FALSE
    /\ disk = AbsentFile
    /\ fs = [p \in {} |-> InitFile(Unopenable)]
    /\ clock = 0
    /\ backupFile = NotWritten
    /\ run = 1
    /\ mods = 0
    /\ calls = <<>>
    /\ fnRet = <<>>
    /\ progressLog = <<>>
    /\ obs = NoObs
    /\ shadow = NoShadow
    /\ call = IdleCall
    /\ lf \in {NewOp(op) : op \in ClientOps}
    /\ scan = IdleMatch
    /\ tk = IdleResolve
    /\ warnings = <<>>
    /\ stages = <<>>
    /\ build = IdleBuild

\* What the server answers to the request in flight: any status; a
\* Retry-After header only with a 429; with a 200 a body of the endpoint,
\* with another status an error body; at most MaxPages pages of a listing.
ServerResponses ==
    {r \in [status : Statuses, hdr : RetryAfterHeaders,
            body : ErrorBodies \cup OkBodies(call.endpoint)] :
        /\ r.status # StatusTooManyRequests => r.hdr = <<>>
        /\ r.status = StatusOK => r.body \in OkBodies(call.endpoint)
        /\ r.status # StatusOK => r.body \in ErrorBodies
        /\ (r.status = StatusOK /\ r.body \in ListBodies /\ r.body.doc.HasMore)
              => Len(lf.pages) + 1 < MaxPages}

TokenResponses ==
    {r \in [status : Statuses, body : ErrorBodies \cup TokenBodies] :
        /\ r.status = StatusOK => r.body \in TokenBodies \cup {NotJSON}
        /\ r.status # StatusOK => r.body \in ErrorBodies}

NextApi ==
    \/ ApiSend
    \/ ApiDoFails
    \/ \E r \in ServerResponses : ApiRespond(r.status, r.hdr, r.body)
    \/ TimerFires
    \/ SelectDone
    \/ SelectTimer
    \/ ApiCancel
    \/ GaStart
    \/ GaReturns
    \/ LfStart
    \/ LfPageReturns
    \/ LfLoop
    \/ OAuthSend
    \/ OAuthDoFails
    \/ \E r \in TokenResponses : OAuthRespond(r.status, r.body)

SpecApi == InitApi /\ [][NextApi]_vars

----------------------------------------------------------------------------
(* ComputeRemotePath and Match on their own *)

\* No run of the pipeline, no cache, no Dropbox call.
NoPipeline ==
    /\ items = <<>>
    /\ n = 1
    /\ loopI = 1
    /\ storeI = 1
    /\ results = <<>>
    /\ errors = <<>>
    /\ done = 0
    /\ wg = 0
    /\ sem = 0
    /\ wk = <<>>
    /\ cancelled = FALSE
    /\ entries = NoEntries
    /\ dirty = FALSE
    /\ disk = AbsentFile
    /\ fs = [p \in {} |-> InitFile(Unopenable)]
    /\ clock = 0
    /\ backupFile = NotWritten
    /\ run = 1
    /\ mods = 0
    /\ calls = <<>>
    /\ fnRet = <<>>
    /\ progressLog = <<>>
    /\ obs = NoObs
    /\ shadow = NoShadow
    /\ call = IdleCall
    /\ lf = IdleOp
    /\ warnings = <<>>
    /\ stages = <<>>

pipelineVars == <<items, n, mainPc, loopI, storeI, results, errors, done, wg,
                  sem, wk, cancelled, entries, dirty, disk, fs, clock,
                  backupFile, run, mods, calls, fnRet, progressLog, obs,
                  shadow, call, lf, warnings, stages>>

\* The --local directories and the roots that DetectRootPath can return.
LocalDirs == {DropboxDir, MusicDir, LinkDir, SiblingDir, GoneDir}
DropboxRoots == {DropboxDir, DropboxDirSlash, RootDir, GoneDir}

InitMatch ==
    /\ NoPipeline
    /\ mainPc = "matcher"
    /\ scan \in {NewMatch(l, r) : l \in LocalDirs, r \in DropboxRoots}
    /\ tk = IdleResolve
    /\ build = IdleBuild

\* remotePath, err := dropbox.ComputeRemotePath(absLocal, dropboxRoot)
CallComputeRemotePath ==
    /\ scan.pc = "path"
    /\ LET r == ComputeRemotePath(scan.localDir, scan.dropboxRoot)
       IN scan' = [scan EXCEPT !.remotePath = r,
                               !.pc = IF r.ok THEN "match" ELSE "failed"]
    /\ UNCHANGED <<pipelineVars, tk, build>>

\* result := matcher.Match(absLocal, remotePath, localFiles, entries), for
\* any local file list, any listing and any iteration order of the map.
CallMatch ==
    /\ scan.pc = "match"
    /\ \E localFiles \in SeqsUpTo(LocalPathsIn(scan.localDir), MaxLocal),
          ents \in SeqsUpTo(RemoteEntriesIn(scan.remotePath.path), MaxRemote) :
          \E mapOrder \in Orders(DOMAIN dbLookupOf(ents)) :
             scan' = [scan EXCEPT
                        !.pc = "done",
                        !.localFiles = localFiles,
                        !.entries = ents,
                        !.steps = [i \in DOMAIN localFiles |->
                                     LocalStep(scan.localDir,
                                               ToLower(scan.remotePath.path),
                                               dbLookupOf(ents), localFiles[i])],
                        !.result = Match(scan.localDir, scan.remotePath.path,
                                         localFiles, ents, mapOrder)]
    /\ UNCHANGED <<pipelineVars, tk, build>>

NextMatch ==
    \/ CallComputeRemotePath
    \/ CallMatch

SpecMatch == InitMatch /\ [][NextMatch]_vars

----------------------------------------------------------------------------
(* resolveToken on its own *)

InitToken ==
    /\ NoPipeline
    /\ mainPc = "token"
    /\ scan = IdleMatch
    /\ build = IdleBuild
    /\ tk \in {NewResolve(ak, as, rt, dt, stored, server) :
                  ak \in {"", "ak-flag"}, as \in {"", "as-flag"},
                  rt \in {"", "rt-flag"}, dt \in {"", "dt"},
                  stored \in StoredLoads,
                  server \in SUBSET {"rt-flag", "rt-stored"}}

\* tok, err := resolveToken(ctx, ak, as, rt, dt, logger)
CallResolveToken ==
    /\ tk.pc = "call"
    /\ tk' = [tk EXCEPT !.pc = "returned",
                        !.ret = resolveToken(tk.appKey, tk.appSecret, tk.refreshToken,
                                             tk.directToken, tk.stored, tk.server)]
    /\ UNCHANGED <<pipelineVars, scan, build>>

NextToken == CallResolveToken

SpecToken == InitToken /\ [][NextToken]_vars

----------------------------------------------------------------------------
(* main from the token resolution on (cmd/main.go 63-163), followed by the *)
(* cache load, the worker pool and the output                              *)

InitMain == InitAt("resolve")

\* logger.Fatal() after a failed stage ends the process; otherwise main
\* goes on to the next stage.
AfterStageGoesOn(ok, next) == next
AfterStage(ok, next) == IF ok THEN next ELSE "aborted"

\* A stage ends: its outcome is recorded and main moves on or exits.
EndStage(stage, ok, next) ==
    /\ stages' = Append(stages, [stage |-> stage, ok |-> ok])
    /\ mainPc' = AfterStage(ok, next)
    /\ UNCHANGED <<items, n, loopI, storeI, results, errors, done, wg, sem, wk,
                   cancelled, entries, dirty, disk, fs, clock, backupFile, run,
                   mods, calls, fnRet, progressLog, obs, shadow, call, lf, scan,
                   tk, warnings, build>>

\* main 58-86: the token, from the flags, the stored credentials or the
\* interactive setup.
MainResolve ==
    /\ mainPc = "resolve"
    /\ \E ak \in {"", "ak-flag"}, as \in {"", "as-flag"}, rt \in {"", "rt-flag"},
          dt \in {"", "dt"}, stored \in StoredLoads,
          server \in SUBSET {"rt-flag", "rt-stored", "rt-new"},
          interactive \in BOOLEAN, prompted \in {"", "typed"},
          exchanged \in BOOLEAN :
          EndStage("token",
                   TokenStage(ak, as, rt, dt, stored, server, interactive,
                              prompted, exchanged).err = "",
                   "account")

\* main 100-105: client.GetAccountID, which returns an error or not.
MainAccount ==
    /\ mainPc = "account"
    /\ \E ok \in BOOLEAN : EndStage("account", ok, "root")

\* main 109-112: dropbox.DetectRootPath, which returns an error or not.
MainDetectRoot ==
    /\ mainPc = "root"
    /\ \E ok \in BOOLEAN : EndStage("root", ok, "remotePath")

\* main 116-119: dropbox.ComputeRemotePath(absLocal, dropboxRoot).
MainRemotePath ==
    /\ mainPc = "remotePath"
    /\ \E l \in LocalDirs, r \in DropboxRoots :
          EndStage("remotePath", ComputeRemotePath(l, r).ok, "scan")

\* main 124-127: matcher.ScanLocal, which returns an error or not.
MainScan ==
    /\ mainPc = "scan"
    /\ \E ok \in BOOLEAN : EndStage("scan", ok, "list")

\* main 132-135: client.ListFolder, which returns an error or not.
MainList ==
    /\ mainPc = "list"
    /\ \E ok \in BOOLEAN : EndStage("list", ok, "match")

\* if *dryRun { ...; return } (main 154-163)
AfterMatchIgnoresDryRun(dryRun) == "load"
AfterMatch(dryRun) == IF dryRun THEN "dryrun" ELSE "load"

\* main 138-163: matcher.Match, whose matched files are the items of the
\* run; with --dry-run main prints the counts and returns; the
\* history notes that the flag was given.
MainMatch ==
    /\ mainPc = "match"
    /\ \E dryRun \in BOOLEAN :
          /\ mainPc' = AfterMatch(dryRun)
          /\ stages' = IF dryRun
                        THEN Append(stages, [stage |-> "dry-run", ok |-> TRUE])
                        ELSE stages
    /\ UNCHANGED <<items, n, loopI, storeI, results, errors, done, wg, sem, wk,
                   cancelled, entries, dirty, disk, fs, clock, backupFile, run,
                   mods, calls, fnRet, progressLog, obs, shadow, call, lf, scan,
                   tk, warnings, build>>

NextMain ==
    \/ MainResolve
    \/ MainAccount
    \/ MainDetectRoot
    \/ MainRemotePath
    \/ MainScan
    \/ MainList
    \/ MainMatch
    \/ Next

SpecMain == InitMain /\ [][NextMain]_vars

----------------------------------------------------------------------------
(* Properties of the worker pool and of the run *)

\* Indexes whose fn has been invoked and has not returned.
InFlight == {i \in Idx : wk[i].pc \in {"lookup", "read"}}

\* Positions of main after worker.Process has returned.
AfterProcess == {"store", "save", "write", "done"}

\* C1: at every moment, and so when Process returns, the slots of an index
\* whose fn has returned hold exactly what fn returned for that index, and
\* the slots of every other index still hold the zero values: no goroutine
\* writes the slot of another index, whatever the completion order.
C1_SlotsHoldOwnReturn ==
    \A i \in Idx :
        IF fnRet[i] # <<>>
        THEN results[i] = fnRet[i][1] /\ errors[i] = fnRet[i][2]
        ELSE results[i] = ZeroMeta /\ errors[i] = NoErr

\* Process has returned two different outcomes, and the second item
\* completed before the first.
C1_Witness ==
    /\ mainPc = "store"
    /\ Len(items) >= 2
    /\ wk[1].current > wk[2].current /\ wk[2].current >= 1
    /\ errors[1] # NoErr /\ errors[2] = NoErr
    /\ results[2] = ReadFile(items[2], Tagged(<<"t">>))[1]

\* C2: the number of fn invocations started and not yet finished never
\* exceeds the limit n.
C2_AtMostNInFlight == Cardinality(InFlight) <= n

\* n invocations are in flight and the submission loop waits for a slot.
C2_Witness ==
    /\ Cardinality(InFlight) = n
    /\ mainPc = "acquire"
    /\ sem = n

\* C3: a Lookup of a worker that reports a hit returns the metadata
\* tags.ReadFile extracts from the file that is at the path at that moment.
C3_LookupNeverStale ==
    [][\A i \in Idx :
          (wk[i].pc = "lookup" /\ wk'[i].pc = "add") =>
              fnRet'[i][1] = ReadFile(items[i], ContentOf(fs, items[i]))[1]]_vars

\* C4: once the context is cancelled no further fn invocation starts, and the
\* slots of completed items keep their values.
C4_NoStartAfterCancel ==
    [][(cancelled /\ mainPc # "done") =>
          /\ \A i \in Idx : calls'[i] <= calls[i]
          /\ \A i \in Idx : fnRet[i] # <<>> =>
                 results'[i] = results[i] /\ errors'[i] = errors[i]]_vars

\* C5: when Process returns without cancellation fn has been invoked exactly
\* once for every item, and an index holds an error exactly if its own fn
\* returned one; no item is ever invoked twice.
C5_EveryItemOnce ==
    /\ \A i \in Idx : calls[i] <= 1
    /\ (mainPc \in AfterProcess /\ ~cancelled) =>
          \A i \in Idx :
              /\ calls[i] = 1
              /\ fnRet[i] # <<>>
              /\ (errors[i] # NoErr) = (fnRet[i][2] # NoErr)

\* With one worker the first item failed and the second was still run.
C5_Witness ==
    /\ mainPc = "store" /\ ~cancelled
    /\ n = 1 /\ Len(items) >= 2
    /\ errors[1] # NoErr
    /\ calls[2] = 1 /\ errors[2] = NoErr /\ results[2] # ZeroMeta

\* C6: when Process returns without cancellation the progress callback has
\* run once per item, each time with total = k, and the counts it received
\* are exactly 1..k.
C6_ProgressOncePerItem ==
    (mainPc \in AfterProcess /\ ~cancelled) =>
        /\ Len(progressLog) = Len(items)
        /\ {progressLog[j][1] : j \in 1..Len(progressLog)} = 1..Len(items)
        /\ \A j \in 1..Len(progressLog) : progressLog[j][2] = Len(items)

\* Process has returned for two items after two callbacks.
C6_Witness ==
    /\ mainPc = "store" /\ ~cancelled
    /\ Len(items) >= 2
    /\ Len(progressLog) = Len(items)
    /\ n >= 2

\* C7: in the order in which the progress callbacks execute, the counts they
\* receive never decrease.
C7_ProgressCountsOnlyIncrease ==
    \A j \in 1..(Len(progressLog) - 1) :
        progressLog[j][1] <= progressLog[j + 1][1]

\* C8: whenever main calls TagCache.Store, worker.Process has returned and
\* every goroutine it started has finished, so that no Lookup of a worker
\* overlaps or follows a Store.
C8_StoreAfterJoin ==
    [][(mainPc = "store" /\ storeI' = storeI + 1 /\ errors[storeI] = NoErr) =>
          /\ wg = 0
          /\ \A i \in Idx : wk[i].pc \in {"idle", "finished"}]_vars

\* main has stored the first item, whose worker looked it up before.
C8_Witness ==
    /\ mainPc = "store" /\ storeI = 2
    /\ calls[1] = 1 /\ wk[1].pc = "finished"
    /\ items[1] \in DOMAIN entries
    /\ entries[items[1]].Meta = results[1]
    /\ dirty

----------------------------------------------------------------------------
(* Properties of the cache *)

\* C9: Lookup reports a hit exactly if the path has an entry, the file can
\* be stat'd and its size and modification time both equal the stored key;
\* a hit returns the stored metadata, a miss returns the zero metadata, and
\* the call leaves the map, the dirty flag and the cache file as they were.
C9_LookupHitIffKeyMatches ==
    obs.op = "lookup" =>
        /\ obs.found = (/\ obs.had
                        /\ obs.info.ok
                        /\ obs.info.size = obs.key.Size
                        /\ obs.info.mtime = obs.key.ModTime)
        /\ obs.found => obs.meta = obs.stored
        /\ ~obs.found => obs.meta = ZeroMeta
        /\ <<entries, dirty, disk>> = obs.before

\* A Lookup has hit an entry and returned its metadata.
C9_Witness ==
    /\ obs.op = "lookup" /\ obs.found
    /\ obs.meta = MetaT
    /\ obs.path = Path1

\* C10: a Lookup of a path that was stored, in this cache or in the cache
\* whose saved file this one was loaded from, returns the stored metadata as
\* long as the file still has the size and modification time it had at the
\* Store, and misses once either has changed.
C10_RoundTrip ==
    (obs.op = "lookup" /\ obs.path \in DOMAIN shadow.mem) =>
        IF obs.info = shadow.mem[obs.path].info
        THEN obs.found /\ obs.meta = shadow.mem[obs.path].meta
        ELSE ~obs.found

\* C11: Save makes file system calls only on a cache on which a Store has
\* succeeded since it was loaded; on a cache that was only loaded and looked
\* up it calls neither MkdirAll nor WriteFile, leaves the cache file as it
\* was and returns no error.
C11_SaveOnlyWhenStored ==
    obs.op = "save" =>
        /\ (obs.sys # <<>> \/ disk # obs.before[3]) => shadow.stored
        /\ ~shadow.stored =>
              /\ obs.sys = <<>>
              /\ disk = obs.before[3]
              /\ obs.err = NoErr

\* A cache that holds loaded entries and has had no Store was saved.
C11_Witness ==
    /\ obs.op = "save"
    /\ ~shadow.stored
    /\ entries # NoEntries
    /\ obs.sys = <<>>

\* C12: Load returns no error, and from a missing, unreadable or malformed
\* cache file it returns an empty cache that is not dirty, whatever the
\* decoder had filled in before it met the malformed text.
C12_LoadDegradesToEmpty ==
    obs.op = "load" =>
        /\ obs.err = NoErr
        /\ ~dirty
        /\ disk.kind \in {"absent", "unreadable", "malformed"} =>
              entries = NoEntries

\* A malformed file with decodable entries before the damage was loaded.
C12_Witness ==
    /\ obs.op = "load"
    /\ disk.kind = "malformed"
    /\ disk.doc # NoEntries
    /\ entries = NoEntries

----------------------------------------------------------------------------
(* Properties of the Dropbox client *)

LastResp == call.resps[Len(call.resps)]

\* C13: a 401 response is the last response of its API call, wherever it
\* comes in the sequence: the call has returned the authentication error
\* and has sent no request after the one the 401 answered.
C13_NoRetryAfter401 ==
    \A i \in 1..Len(call.resps) :
        call.resps[i] = StatusUnauthorized =>
            /\ i = Len(call.resps)
            /\ call.pc = "done"
            /\ call.ret.kind = "err401"
            /\ call.sent = i

\* A 401 has followed two 429 responses.
C13_Witness ==
    /\ Len(call.resps) >= 3
    /\ call.resps[1] = StatusTooManyRequests
    /\ LastResp = StatusUnauthorized

\* C14: an API call that the server has answered with j 429 responses and
\* then a 200 has sent exactly j+1 requests and returns the payload of the
\* 200 without error, and none of its waits exceeded the backoff ceiling.
C14_RetriesUntil200 ==
    (call.pc = "done" /\ Len(call.resps) > 0 /\ LastResp = StatusOK) =>
        /\ \A i \in 1..(Len(call.resps) - 1) : call.resps[i] = StatusTooManyRequests
        /\ call.sent = Len(call.resps)
        /\ call.ret = Ret("ok", StatusOK, call.last.body)
        /\ call.maxWait <= maxBackoff

\* C14, amended: as above, but the ceiling bounds the waits the client
\* takes from its backoff; a wait the server asks for with an integer
\* Retry-After is not bounded by it.
C14_RetriesUntil200_Amended ==
    (call.pc = "done" /\ Len(call.resps) > 0 /\ LastResp = StatusOK) =>
        /\ \A i \in 1..(Len(call.resps) - 1) : call.resps[i] = StatusTooManyRequests
        /\ call.sent = Len(call.resps)
        /\ call.ret = Ret("ok", StatusOK, call.last.body)
        /\ call.maxOwnWait <= maxBackoff

\* A 200 has followed seven or more 429 responses, one wait came from the
\* backoff at its ceiling and one from a Retry-After above it.
C14_Witness ==
    /\ call.pc = "done"
    /\ Len(call.resps) >= 8
    /\ LastResp = StatusOK
    /\ call.ret.kind = "ok"
    /\ call.maxOwnWait = maxBackoff
    /\ call.maxWait > maxBackoff

\* C15: the backoff is 1 at the start of a call, doubles after each 429 up
\* to 60 and is always between 1 and 60; while no 429 of the call has
\* carried a Retry-After header, the wait before the k-th retry is
\* min(2^(k-1), 60).
C15_BackoffSchedule ==
    /\ 1 <= call.backoff /\ call.backoff <= maxBackoff
    /\ call.pc \in {"send", "await"} =>
          call.backoff = Min(2 ^ Len(call.resps), maxBackoff)
    /\ (call.pc = "sleep" /\ call.bare) =>
          call.wait = Min(2 ^ (Len(call.resps) - 1), maxBackoff)

\* The call sleeps before its seventh or a later retry, at the ceiling.
C15_Witness ==
    /\ call.pc = "sleep"
    /\ call.bare
    /\ Len(call.resps) >= 7
    /\ call.wait = maxBackoff

\* C16: an API call ends only with the payload of a 200, the error of a
\* 401, the error of another status (never 429), an error of the transport
\* or the cancellation error; after a 429 it goes on to sleep and send
\* again, however many 429 it has had, unless it is cancelled or the
\* transport fails.
C16_RateLimitNeverSurfaces ==
    /\ call.pc = "done" =>
          /\ call.ret.kind \in {"ok", "err401", "errStatus", "errDo", "errCtx"}
          /\ call.ret.kind = "ok" => LastResp = StatusOK
          /\ call.ret.kind = "err401" => LastResp = StatusUnauthorized
          /\ call.ret.kind = "errStatus" =>
                /\ call.ret.status = LastResp
                /\ LastResp \notin {StatusOK, StatusUnauthorized, StatusTooManyRequests}
          /\ call.ret.kind = "errCtx" => cancelled
    /\ (Len(call.resps) > 0 /\ LastResp = StatusTooManyRequests) =>
          \/ call.pc \in {"sleep", "send", "await"}
          \/ call.pc = "done" /\ call.ret.kind = "errCtx" /\ cancelled
          \/ call.pc = "done" /\ call.ret.kind = "errDo"

\* After as many 429 responses as the server gives, the call has sent
\* one more request.
C16_Witness ==
    /\ call.pc = "await"
    /\ ~cancelled
    /\ Len(call.resps) = MaxRetries
    /\ \A i \in 1..Len(call.resps) : call.resps[i] = StatusTooManyRequests
    /\ call.sent = MaxRetries + 1

\* C17: once the cancellation has arrived during the sleep after a 429, the
\* call can return at once, sends no further request, and when it has
\* returned it has returned ctx.Err() with the timer not fired.
C17_CancelCutsSleep ==
    call.asleepAtCancel =>
        /\ call.sent = call.sentAtCancel
        /\ call.pc \in {"sleep", "done"}
        /\ call.pc = "sleep" => ENABLED SelectDone
        /\ call.pc = "done" =>
              /\ call.ret = Ret("errCtx", 1, NoBody)
              /\ ~call.elapsed

\* A call cancelled in its second or a later sleep has returned.
C17_Witness ==
    /\ call.asleepAtCancel
    /\ call.pc = "done"
    /\ call.wait > 1
    /\ Len(call.resps) >= 2

\* C18: a response with a status other than 200, 401 and 429 is the last
\* of its API call: the call has returned an error with that status and the
\* body of that response and has sent no further request.
C18_OtherStatusFatal ==
    \A i \in 1..Len(call.resps) :
        call.resps[i] \notin {StatusOK, StatusUnauthorized, StatusTooManyRequests} =>
            /\ i = Len(call.resps)
            /\ call.pc = "done"
            /\ call.ret = Ret("errStatus", call.resps[i], call.last.body)
            /\ call.sent = i

\* A 500 with a body has followed a 429.
C18_Witness ==
    /\ Len(call.resps) >= 2
    /\ LastResp = 500
    /\ call.ret.kind = "errStatus"
    /\ call.ret.body = Body(TRUE, [error |-> "e1"])

\* The file-kind entries of a sequence of pages, in page order.
RECURSIVE FilesOfPages(_)
FilesOfPages(pages) ==
    IF pages = <<>> THEN <<>>
    ELSE FilesOfPages(SubSeq(pages, 1, Len(pages) - 1))
         \o SelectSeq(pages[Len(pages)].Entries, LAMBDA e : e.Tag = "file")

\* C19: the first API call of ListFolder is the recursive list request;
\* every later one is a continuation request that follows a page with
\* has_more = true and carries that page's cursor; no call follows a page
\* with has_more = false; every request on the wire is the request of the
\* latest call; and ListFolder returns without error exactly after a page
\* with has_more = false, with the file-kind entries of all pages in page
\* order.
C19_ListFolderPaging ==
    lf.op = "ListFolder" =>
        /\ Len(lf.reqs) >= 1 =>
              /\ lf.reqs[1].endpoint = "/files/list_folder"
              /\ lf.reqs[1].body \in {ListRequest(p) : p \in {"", "/music"}}
        /\ \A i \in 2..Len(lf.reqs) :
              /\ lf.reqs[i].endpoint = "/files/list_folder/continue"
              /\ lf.pages[i - 1].HasMore
              /\ lf.reqs[i].body = [cursor |-> lf.pages[i - 1].Cursor]
        /\ Len(lf.pages) <= Len(lf.reqs)
        /\ \A i \in 1..Len(lf.pages) : ~lf.pages[i].HasMore => Len(lf.reqs) = i
        /\ call.pc \in {"send", "await", "sleep", "done"} =>
              [endpoint |-> call.endpoint, body |-> call.body] = lf.reqs[Len(lf.reqs)]
        /\ (lf.pc = "done" /\ lf.err = NilErr) =>
              /\ Len(lf.reqs) = Len(lf.pages)
              /\ ~lf.pages[Len(lf.pages)].HasMore
              /\ lf.val = FilesOfPages(lf.pages)

\* ListFolder has returned the files of three pages, the first and the
\* second with different cursors, and has dropped a folder entry.
C19_Witness ==
    /\ lf.op = "ListFolder" /\ lf.pc = "done" /\ lf.err = NilErr
    /\ Len(lf.pages) = 3
    /\ lf.pages[1].Cursor # lf.pages[2].Cursor
    /\ Len(lf.val) = 3
    /\ \E i \in 1..3 : \E j \in 1..Len(lf.pages[i].Entries) :
          lf.pages[i].Entries[j].Tag = "folder"

\* C20: refreshAccessToken and exchangeAuthorizationCode send at most one
\* request, and exactly one when a response has come, whatever its status;
\* they return the token(s) without error exactly if that response is a 200
\* whose body decodes and holds a non-empty access token (and, for the
\* exchange, a non-empty refresh token), and an error otherwise.
C20_OAuthOneShot ==
    lf.op \in OAuthOps =>
        /\ lf.sent <= 1
        /\ lf.pc = "await" => lf.sent = 1
        /\ lf.pc = "done" =>
              LET resp == lf.last
                  good == /\ resp.kind = "resp"
                          /\ resp.status = StatusOK
                          /\ resp.body.valid
                          /\ resp.body.doc.access_token # ""
                          /\ lf.op = "exchangeAuthorizationCode" =>
                                resp.body.doc.refresh_token # ""
              IN /\ resp.kind = "resp" => lf.sent = 1
                 /\ IF good
                    THEN /\ lf.err = NilErr
                         /\ lf.val = IF lf.op = "refreshAccessToken"
                                     THEN resp.body.doc.access_token
                                     ELSE <<resp.body.doc.refresh_token,
                                            resp.body.doc.access_token>>
                    ELSE /\ lf.err \notin {NilErr, NoRet}
                         /\ lf.val = NoTokens(lf.op)

\* The token endpoint has answered a refresh with a 429: one request, an
\* error.
C20_Witness ==
    /\ lf.op = "refreshAccessToken" /\ lf.pc = "done"
    /\ lf.last.status = StatusTooManyRequests
    /\ lf.sent = 1
    /\ lf.err.kind = "errStatus"

----------------------------------------------------------------------------
(* Properties of Match and ComputeRemotePath *)

\* Two relative paths differ at most in letter case and in the composed or
\* decomposed form of their accents.
SameUpToCaseAndForm(a, b) == ToLower(NFC(a)) = ToLower(NFC(b))

\* The path of a remote entry relative to the remote root.
RemoteRel(e) ==
    SubSeq(e.PathLower, Len(scan.remotePath.path) + 2, Len(e.PathLower))

\* The path of the i-th local file relative to the scan root.
LocalRel(i) == Rel(scan.localDir, scan.localFiles[i])

\* The entries of the listing with a recognized audio extension.
AudioEntryIndexes ==
    {j \in DOMAIN scan.entries :
        \E ext \in audioExtensions : HasSuffix(ToLower(scan.entries[j].Name), ext)}

\* C21: when Match has returned, every local file whose relative path
\* differs from the relative path of some remote entry only in letter case
\* or in the composed or decomposed form of an accent, on either side, is
\* reported as matched with such an entry.
C21_CaseAndFormInsensitive ==
    scan.pc = "done" =>
        \A i \in DOMAIN scan.localFiles : \A j \in DOMAIN scan.entries :
            (LocalRel(i).ok /\ SameUpToCaseAndForm(LocalRel(i).rel, RemoteRel(scan.entries[j])))
            => \E k \in DOMAIN scan.result.Matched :
                  /\ scan.result.Matched[k].LocalPath = scan.localFiles[i]
                  /\ SameUpToCaseAndForm(LocalRel(i).rel,
                                         RemoteRel(scan.result.Matched[k].Entry))

\* C22: scan root /music with Song.MP3 and the composed cafe, remote root
\* /Music with entries at /music/song.mp3 and at the decomposed
\* /music/cafe: both local files are matched and nothing is left unmatched.
C22_Example ==
    ( /\ scan.pc = "done"
      /\ scan.localDir = LinkDir
      /\ scan.remotePath.path = <<"/", "M", "u", "s", "i", "c">>
      /\ scan.localFiles = <<JoinPath(LinkDir, SongUpper), JoinPath(LinkDir, CafeComposed)>>
      /\ Len(scan.entries) = 2
      /\ scan.entries[1].PathLower = LinkDir \o <<"/">> \o SongLower
      /\ scan.entries[2].PathLower = LinkDir \o <<"/">> \o CafeDecomposed )
    => /\ Len(scan.result.Matched) = 2
       /\ scan.result.Matched[1].LocalPath = JoinPath(LinkDir, SongUpper)
       /\ scan.result.Matched[2].LocalPath = JoinPath(LinkDir, CafeComposed)
       /\ scan.result.UnmatchedLocal = <<>>
       /\ scan.result.UnmatchedDropbox = <<>>

\* C23: when Match has returned, the matched files and the unmatched remote
\* entries together are as many as the remote entries with a recognized
\* audio extension.
C23_RemotePartition ==
    scan.pc = "done" =>
        Len(scan.result.Matched) + Len(scan.result.UnmatchedDropbox)
            = Cardinality(AudioEntryIndexes)

\* c is a merge of a and b that keeps the order of both.
RECURSIVE IsMerge(_, _, _)
IsMerge(c, a, b) ==
    IF c = <<>> THEN a = <<>> /\ b = <<>>
    ELSE \/ a # <<>> /\ Head(a) = Head(c) /\ IsMerge(Tail(c), Tail(a), b)
         \/ b # <<>> /\ Head(b) = Head(c) /\ IsMerge(Tail(c), a, Tail(b))

\* C24: when Match has returned, the local file list is an order-keeping
\* merge of the matched local paths and of unmatchedLocal, a path whose
\* relative path cannot be computed included: every local path is in
\* exactly one of the two, and their lengths add up to the number of local
\* files.
C24_LocalPartition ==
    scan.pc = "done" =>
        LET m == [k \in DOMAIN scan.result.Matched |-> scan.result.Matched[k].LocalPath]
        IN /\ Len(m) + Len(scan.result.UnmatchedLocal) = Len(scan.localFiles)
           /\ IsMerge(scan.localFiles, m, scan.result.UnmatchedLocal)
           /\ \A i \in DOMAIN scan.localFiles :
                 ~LocalRel(i).ok =>
                    \E k \in DOMAIN scan.result.UnmatchedLocal :
                       scan.result.UnmatchedLocal[k] = scan.localFiles[i]

\* Match has returned for a list with a path that has no relative path and
\* a file that is matched.
C24_Witness ==
    /\ scan.pc = "done"
    /\ Len(scan.localFiles) = 2
    /\ ~LocalRel(1).ok
    /\ Len(scan.result.Matched) = 1
    /\ Len(scan.result.UnmatchedLocal) = 1

\* C25: when Match has returned, every entry of unmatchedRemote has a
\* recognized audio extension and is the entry of no matched file, and no
\* entry of the listing without such an extension is in unmatchedRemote.
C25_UnmatchedAudioOnly ==
    scan.pc = "done" =>
        /\ \A k \in DOMAIN scan.result.UnmatchedDropbox :
              LET e == scan.result.UnmatchedDropbox[k]
              IN /\ \E j \in AudioEntryIndexes : scan.entries[j] = e
                 /\ \A q \in DOMAIN scan.result.Matched :
                       scan.result.Matched[q].Entry.PathLower # e.PathLower
        /\ \A j \in DOMAIN scan.entries \ AudioEntryIndexes :
              \A k \in DOMAIN scan.result.UnmatchedDropbox :
                 scan.result.UnmatchedDropbox[k] # scan.entries[j]

\* Match has returned for a listing with a cover image and an audio file
\* that no local file matches.
C25_Witness ==
    /\ scan.pc = "done"
    /\ scan.localFiles # <<>>
    /\ \E j \in DOMAIN scan.entries : scan.entries[j].Name = CoverJpg
    /\ Len(scan.result.UnmatchedDropbox) = 1
    /\ scan.result.Matched = <<>>

\* C26: the key built for a local file with relative path r is "/" and the
\* lowercased composed r for the empty prefix, and the lowercased prefix,
\* "/" and the lowercased composed r for a prefix that ComputeRemotePath
\* has produced; the prefix does not end in a separator, so the key has one
\* separator there and does not begin with two.
C26_KeyHasOneSeparator ==
    scan.pc = "done" =>
        \A i \in DOMAIN scan.localFiles :
            LocalRel(i).ok =>
                LET p == scan.remotePath.path
                    r == ToLower(NFC(LocalRel(i).rel))
                    key == scan.steps[i].key
                IN /\ p = <<>> => key = <<"/">> \o r
                   /\ p # <<>> => /\ key = ToLower(p) \o <<"/">> \o r
                                  /\ p[Len(p)] # "/"
                                  /\ p[1] = "/"
                   /\ ~HasPrefix(key, <<"/", "/">>)

\* Match has matched a file under the Dropbox root itself (empty prefix).
C26_Witness ==
    /\ scan.pc = "done"
    /\ scan.remotePath.path = <<>>
    /\ scan.dropboxRoot = DropboxDirSlash
    /\ Len(scan.result.Matched) = 1
    /\ scan.steps[1].key = <<"/">> \o CafeComposed

\* The resolved local path lies strictly under the resolved root.
StrictlyUnder(local, root) ==
    LET l == Elements(local)
        r == Elements(root)
    IN Len(l) > Len(r) /\ SubSeq(l, 1, Len(r)) = r

\* C28: when both paths resolve, ComputeRemotePath returns "" for equal
\* paths, "/" and the root-relative path, without trailing slash, for a
\* local path strictly under the root, and an error otherwise.
C28_RemotePath ==
    (scan.pc \in {"match", "failed", "done"}
       /\ EvalSymlinks(scan.localDir).ok /\ EvalSymlinks(scan.dropboxRoot).ok) =>
        LET l == EvalSymlinks(scan.localDir).path
            r == EvalSymlinks(scan.dropboxRoot).path
            ret == scan.remotePath
        IN /\ l = r => ret = PathOk(<<>>)
           /\ StrictlyUnder(l, r) =>
                 /\ ret.ok
                 /\ ret.path = <<"/">> \o Join(SubSeq(Elements(l), Len(Elements(r)) + 1,
                                                       Len(Elements(l))))
                 /\ ret.path[Len(ret.path)] # "/"
           /\ (l # r /\ ~StrictlyUnder(l, r)) => ~ret.ok

----------------------------------------------------------------------------
(* Properties of the token resolution and of the stages of main *)

\* C27: resolveToken decides by the first applicable source.  Explicit app
\* key, app secret and refresh token, all non-empty: the result is the
\* refreshed token or the refresh error.  Otherwise stored credentials with
\* all three fields: the refreshed token or the refresh error, also when a
\* direct token is supplied.  Otherwise the direct token.  Otherwise an
\* error.
C27_TokenPriority ==
    tk.pc = "returned" =>
        LET explicit == tk.appKey # "" /\ tk.appSecret # "" /\ tk.refreshToken # ""
            c == tk.stored.creds
            storedFull == ~c.nil /\ c.AppKey # "" /\ c.AppSecret # "" /\ c.RefreshToken # ""
            refreshed(rt) ==
                IF rt \in tk.server
                THEN tk.ret = TokenRet(AccessTokenOf(rt), "")
                ELSE tk.ret.token = "" /\ tk.ret.err # ""
        IN CASE explicit -> refreshed(tk.refreshToken)
             [] ~explicit /\ storedFull -> refreshed(c.RefreshToken)
             [] ~explicit /\ ~storedFull /\ tk.directToken # "" ->
                    tk.ret = TokenRet(tk.directToken, "")
             [] OTHER -> tk.ret.token = "" /\ tk.ret.err # ""

\* Stored credentials and a direct token are both present, no complete
\* explicit credentials, and the refresh with the stored credentials has
\* failed: the error is returned, not the direct token.
C27_Witness ==
    /\ tk.pc = "returned"
    /\ tk.appKey # "" /\ tk.refreshToken = ""
    /\ tk.stored.creds.RefreshToken = "rt-stored"
    /\ tk.directToken = "dt"
    /\ "rt-stored" \notin tk.server
    /\ tk.ret = TokenRet("", "refreshing access token with stored credentials")

\* The six stages before the match, in the order of main.
EarlyStages == <<"token", "account", "root", "remotePath", "scan", "list">>

\* Every early stage has run and has succeeded.
AllStagesSucceeded ==
    /\ Len(stages) = Len(EarlyStages)
    /\ \A i \in DOMAIN stages : stages[i].stage = EarlyStages[i] /\ stages[i].ok

\* Some early stage has failed.
StageFailed == \E i \in DOMAIN stages : ~stages[i].ok

\* C29: the output file and the cache file change only after token
\* resolution, account lookup, root detection, remote-path computation,
\* local scan and remote listing have all succeeded; a failed stage is the
\* last one to run, the run is aborted there, and from then on neither file
\* is written.
C29_WriteOnlyAfterStages ==
    [][ /\ (backupFile' # backupFile \/ disk' # disk) => AllStagesSucceeded
        /\ StageFailed' => (mainPc' = "aborted" /\ ~stages'[Len(stages')].ok)
        /\ mainPc = "aborted" =>
              (mainPc' = "aborted" /\ stages' = stages
                 /\ backupFile' = backupFile /\ disk' = disk) ]_vars

\* The remote listing has failed after the five stages before it have
\* succeeded: the run is aborted with no output file.
C29_Witness ==
    /\ mainPc = "aborted"
    /\ Len(stages) = 6
    /\ stages[6] = [stage |-> "list", ok |-> FALSE]
    /\ \A i \in 1..5 : stages[i].ok
    /\ backupFile = NotWritten

\* C30: an extraction error never aborts the run.  Once Process has
\* returned, the warnings name exactly the files whose fn returned an
\* error; in a run that nobody interrupts fn has been invoked once for
\* every item; and the output, once written, holds a record for every
\* item: for a file with an error the record of its default metadata, for
\* every other file the record of what fn returned for it.
C30_ExtractionFailureIsolated ==
    /\ (\E i \in Idx : errors[i] # NoErr) => mainPc # "aborted"
    /\ mainPc \in AfterProcess =>
          /\ \A i \in Idx :
                (errors[i] # NoErr) <=> (\E k \in DOMAIN warnings : warnings[k] = items[i])
          /\ Len(warnings) = Cardinality({i \in Idx : errors[i] # NoErr})
          /\ ~cancelled => \A i \in Idx : calls[i] = 1 /\ fnRet[i] # <<>>
    /\ backupFile.written =>
          /\ Len(backupFile.items) = Len(items)
          /\ \A i \in Idx :
                /\ errors[i] # NoErr =>
                      backupFile.items[i] = BuildItem(items[i], DefaultMeta(items[i]))
                /\ (errors[i] = NoErr /\ fnRet[i] # <<>>) =>
                      backupFile.items[i] = BuildItem(items[i], fnRet[i][1])

\* The run has completed with the output written; the tag library
\* panicked on one file and another file was read with its tags.
C30_Witness ==
    /\ mainPc = "done"
    /\ backupFile.written
    /\ AllStagesSucceeded
    /\ ~cancelled
    /\ \E i, j \in Idx :
          /\ errors[i] = PanicErr
          /\ errors[j] = NoErr
          /\ warnings = <<items[i]>>
          /\ backupFile.items[i].TagName = filenameWithoutExt(items[i])
          /\ backupFile.items[j].TagName = <<"t">>

\* The run was started with --dry-run and has come to the match.
DryRunGiven == \E i \in DOMAIN stages : stages[i].stage = "dry-run"

\* C31: once a run with --dry-run has matched, it has ended: the cache is
\* not loaded (no entry in memory although the cache file may hold some)
\* and not saved (the cache file stays as it is), no goroutine is started
\* and fn is never invoked, and no output file is written.
C31_DryRunStopsAfterMatch ==
    [][ DryRunGiven' =>
          /\ mainPc' = "dryrun"
          /\ entries' = NoEntries /\ dirty' = FALSE
          /\ disk' = disk
          /\ \A i \in Idx : calls'[i] = 0 /\ fnRet'[i] = <<>> /\ wk'[i] = IdleWorker
          /\ sem' = 0 /\ wg' = 0 /\ done' = 0 /\ progressLog' = <<>>
          /\ backupFile' = NotWritten ]_vars

\* A dry run over two matched files has ended, with a cache file of an
\* earlier run on disk.
C31_Witness ==
    /\ DryRunGiven
    /\ mainPc = "dryrun"
    /\ Len(items) = 2
    /\ disk # AbsentFile
    /\ DOMAIN Load(disk) # {}

----------------------------------------------------------------------------
(* Termination of the worker pool *)

\* main is inside worker.Process.
InProcess == mainPc \in {"check", "acquire", "wait"}

\* C32: worker.Process always returns, interrupted or not; and whenever it
\* has returned, no goroutine is left running, the semaphore and the wait
\* group are empty, and every item whose fn was invoked has the outcome of
\* fn in its slots.
C32_ProcessReturns ==
    /\ [](mainPc \in AfterProcess =>
            /\ \A i \in Idx : wk[i].pc \in {"idle", "finished"}
            /\ sem = 0 /\ wg = 0
            /\ \A i \in Idx :
                  calls[i] > 0 => /\ fnRet[i] # <<>>
                                  /\ results[i] = fnRet[i][1]
                                  /\ errors[i] = fnRet[i][2])
    /\ (InProcess ~> mainPc \in AfterProcess)

\* Process has returned from two items with one worker after an
\* interrupt: the first item was processed and the second was skipped.
C32_Witness ==
    /\ mainPc = "store"
    /\ n = 1
    /\ Len(items) = 2
    /\ cancelled
    /\ calls[1] = 1 /\ fnRet[1] # <<>> /\ errors[1] = PanicErr
    /\ calls[2] = 0

----------------------------------------------------------------------------
(* What the run stores in the tag cache *)

\* C33: whenever the Store loop of main writes or replaces an entry of the
\* tag cache, the entry's metadata is what fn (a cache hit or ReadFile)
\* returned without error for that path in this run, also in a run that
\* was interrupted.
C33_StoredMetaWasReturned ==
    [][ mainPc = "store" =>
          \A p \in DOMAIN entries' :
             (p \notin DOMAIN entries \/ entries'[p] # entries[p]) =>
                \E i \in Idx :
                   /\ items[i] = p
                   /\ fnRet[i] # <<>>
                   /\ fnRet[i][2] = NoErr
                   /\ entries'[p].Meta = fnRet[i][1] ]_vars

----------------------------------------------------------------------------
(* A panic of the tag library *)

\* The tag library panics on the file of item i.
PanicsOn(i) == ContentOf(fs, items[i]).kind = "panic"

\* C34: a panic of the tag library on one file becomes the error of that
\* file: its fn returns the panic error, the fn of a file without panic
\* returns no error, the semaphore holds exactly the slots of the
\* goroutines that have not released theirs, and in a run that nobody interrupts
\* Process returns with fn invoked once for every item and every goroutine
\* finished.
C34_PanicBecomesItemError ==
    /\ \A i \in Idx :
          fnRet[i] # <<>> =>
             /\ PanicsOn(i) => fnRet[i][2] = PanicErr /\ errors[i] = PanicErr
             /\ ~PanicsOn(i) => fnRet[i][2] = NoErr /\ errors[i] = NoErr
    /\ sem = Cardinality({i \in Idx : wk[i].pc \notin {"idle", "released", "finished"}})
    /\ (mainPc \in AfterProcess /\ ~cancelled) =>
          \A i \in Idx : calls[i] = 1 /\ wk[i].pc = "finished"

\* With one worker the library has panicked on the first of two files,
\* and Process has returned with the other file read.
C34_Witness ==
    /\ mainPc \in AfterProcess
    /\ ~cancelled
    /\ n = 1
    /\ Len(items) = 2
    /\ PanicsOn(1) /\ errors[1] = PanicErr
    /\ ~PanicsOn(2) /\ fnRet[2] # <<>> /\ errors[2] = NoErr

----------------------------------------------------------------------------
(* Remote entries with the same lowercased path *)

\* The last entry of the listing that has the lowercased path of entry j.
LastWithPathOf(j) ==
    scan.entries[CHOOSE q \in DOMAIN scan.entries :
                    /\ scan.entries[q].PathLower = scan.entries[j].PathLower
                    /\ \A r \in DOMAIN scan.entries :
                          scan.entries[r].PathLower = scan.entries[j].PathLower => r <= q]

\* C35: when Match has returned, every matched file carries the last entry
\* of the listing with its lowercased path, a local file whose lowercased
\* composed path is that of some entry is paired with the last such entry,
\* and an earlier entry with the same lowercased path is neither in matched
\* nor in unmatchedRemote.
C35_LastEntryWins ==
    scan.pc = "done" =>
        /\ \A i \in DOMAIN scan.localFiles : \A j \in DOMAIN scan.entries :
              (LocalRel(i).ok
                 /\ ToLower(scan.remotePath.path) \o <<"/">> \o ToLower(NFC(LocalRel(i).rel))
                       = scan.entries[j].PathLower)
              => \E k \in DOMAIN scan.result.Matched :
                    scan.result.Matched[k] = MatchedFile(scan.localFiles[i], LastWithPathOf(j))
        /\ \A j \in DOMAIN scan.entries :
              scan.entries[j] # LastWithPathOf(j) =>
                 /\ \A k \in DOMAIN scan.result.Matched :
                       scan.result.Matched[k].Entry # scan.entries[j]
                 /\ \A k \in DOMAIN scan.result.UnmatchedDropbox :
                       scan.result.UnmatchedDropbox[k] # scan.entries[j]

\* The listing holds two entries with the path /music/song.mp3, and the
\* local Song.MP3 is paired with the second.
C35_Witness ==
    /\ scan.pc = "done"
    /\ Len(scan.entries) = 2
    /\ scan.entries[1].ID = "id:1" /\ scan.entries[2].ID = "id:2"
    /\ scan.entries[1].PathLower = scan.entries[2].PathLower
    /\ Len(scan.result.Matched) = 1
    /\ scan.result.Matched[1].Entry.ID = "id:2"
    /\ scan.result.UnmatchedDropbox = <<>>

----------------------------------------------------------------------------
(* The backup items of a finished scan *)

\* The matched files and the metadata that main has when it reaches step
\* 4: files with and without a genre, with track number 0, with none.
AccountIDs == {"dbid:A"}
BuiltFiles ==
    {MatchedFile(JoinPath(MusicDir, SongUpper), FileEntry("id:1", SongUpper, SongLower)),
     MatchedFile(JoinPath(MusicDir, CafeComposed), FileEntry("id:3", CafeComposed, CafeComposed))}
BuiltMetas ==
    {AudioMeta("Title", "Artist", "Album", "Band", genre, 1999, track, 1, ms) :
        genre \in {"", "Rock"}, track \in {-1, 0, 7}, ms \in {0, 1234}}

InitItems ==
    /\ NoPipeline
    /\ mainPc = "items"
    /\ scan = IdleMatch
    /\ tk = IdleResolve
    /\ \E len \in 0..MaxBuild :
          build \in {NewBuild(a, matched, metas) :
                        a \in AccountIDs,
                        matched \in [1..len -> BuiltFiles],
                        metas \in [1..len -> BuiltMetas]}

\* main 216-251: the items are built and the document is written; when
\* backup.Write fails the output holds no document and main ends.
WriteBackup ==
    /\ build.pc = "build"
    /\ \E outcome \in WriteOutcomes :
          build' = IF outcome = "ok"
                   THEN [build EXCEPT
                           !.pc = "written",
                           !.doc = MarshalBackup(BuildItems(build.accountID,
                                                            build.matched,
                                                            build.metas))]
                   ELSE [build EXCEPT !.pc = "failed"]
    /\ UNCHANGED <<pipelineVars, scan, tk>>

NextItems == WriteBackup
SpecItems == InitItems /\ [][NextItems]_vars

\* C36: the written document holds one record per matched pair, in the
\* order of the pairs: record i has the id and the name of the remote entry
\* of pair i, the account id, and the tags of metas[i]; tag_genre is there
\* exactly when the genre is not empty, tag_trackNumber exactly when the
\* track number is not negative.
C36_OneRecordPerPair ==
    build.pc = "written" =>
        /\ Len(build.doc.items) = Len(build.matched)
        /\ build.doc.playlists = <<>>
        /\ \A i \in 1..Len(build.matched) :
              LET rec == build.doc.items[i]
                  mf == build.matched[i]
                  meta == build.metas[i]
              IN  /\ rec["key"] = mf.Entry.ID
                  /\ rec["name"] = mf.Entry.Name
                  /\ rec["account_id"] = build.accountID
                  /\ rec["tag_name"] = meta.Title
                  /\ rec["tag_artist"] = meta.Artist
                  /\ rec["tag_album"] = meta.Album
                  /\ rec["tag_albumArtist"] = meta.AlbumArtist
                  /\ rec["tag_year"] = meta.Year
                  /\ rec["tag_diskNumber"] = meta.DiskNumber
                  /\ rec["tag_duration"] = DurationJSON(meta.Duration)
                  /\ ("tag_genre" \in DOMAIN rec) <=> (meta.Genre # "")
                  /\ ("tag_genre" \in DOMAIN rec) => rec["tag_genre"] = meta.Genre
                  /\ ("tag_trackNumber" \in DOMAIN rec) <=> (meta.TrackNumber >= 0)
                  /\ ("tag_trackNumber" \in DOMAIN rec)
                        => rec["tag_trackNumber"] = meta.TrackNumber

\* Two pairs are written: one without genre and with track number 0, the
\* other with a genre and without track number.
C36_Witness ==
    /\ build.pc = "written"
    /\ Len(build.matched) = 2
    /\ build.matched[1].Entry.ID # build.matched[2].Entry.ID
    /\ build.metas[1].Genre = "" /\ build.metas[1].TrackNumber = 0
    /\ build.metas[2].Genre = "Rock" /\ build.metas[2].TrackNumber = -1
    /\ "tag_trackNumber" \in DOMAIN build.doc.items[1]
    /\ "tag_genre" \in DOMAIN build.doc.items[2]

\* C37: a page request of ListFolder that fails, whether apiCall returns
\* an error or the body of the page cannot be decoded, makes ListFolder
\* return an error and no entries; a ListFolder that has returned an error
\* has returned no entry of the pages it had received.
C37_NoPartialListing ==
    /\ [](lf.op = "ListFolder" /\ lf.pc = "done" /\ lf.err # NilErr => lf.val = <<>>)
    /\ [][(/\ lf.op = "ListFolder" /\ lf.pc \in {"first", "continue"}
           /\ call.pc = "done"
           /\ call.ret.kind # "ok" \/ ~call.ret.body.valid
           /\ lf' # lf)
          => /\ lf'.pc = "done"
             /\ lf'.err # NilErr
             /\ lf'.err.kind \in {"err401", "errStatus", "errDo", "errCtx", "errDecode"}
             /\ lf'.val = <<>>]_vars

\* ListFolder has returned an error after it had received two pages with
\* files in them.
C37_Witness ==
    /\ lf.op = "ListFolder" /\ lf.pc = "done" /\ lf.err # NilErr
    /\ Len(lf.pages) = 2
    /\ Len(lf.entries) >= 2
    /\ lf.val = <<>>

\* The Retry-After headers that are integers, with their values.
IntegerHeaders ==
    {<<<<"0">>, 0>>, <<<<"2">>, 2>>, <<<<"1", "2", "0">>, 120>>, <<<<"-", "1">>, 0 - 1>>}

\* C38: after a 429 whose Retry-After header is the integer s the call
\* waits s seconds, also when s is above maxBackoff, and the wait is over
\* at once when s <= 0; after a 429 without the header, or with one that is
\* not an integer, it waits the current backoff; the 429 leaves the backoff
\* as it is and the end of the wait doubles it up to maxBackoff, whatever
\* the header was.
C38_RetryAfterWait ==
    [][/\ (call.pc = "await" /\ call'.pc = "sleep") =>
            /\ \A pr \in IntegerHeaders :
                  call'.hdr = pr[1] =>
                      /\ call'.wait = pr[2]
                      /\ pr[2] <= 0 => call'.elapsed
            /\ (\A pr \in IntegerHeaders : call'.hdr # pr[1]) =>
                  call'.wait = call.backoff
            /\ call'.backoff = call.backoff
       /\ (call.pc = "sleep" /\ call'.pc = "send") =>
            call'.backoff = Min(2 * call.backoff, maxBackoff)]_vars

\* The call waits the 120 seconds of the header of its third 429, its
\* backoff having doubled twice; the 429 before had a header of 0 seconds.
C38_Witness ==
    /\ call.pc = "sleep"
    /\ call.hdr = <<"1", "2", "0">>
    /\ call.wait = 120
    /\ call.wait > maxBackoff
    /\ call.backoff = 4
    /\ ~call.elapsed

\* C39: no two matched files of one result of Match carry the same remote
\* entry, whatever the local files are.
C39_OneLocalPerEntry ==
    scan.pc = "done" =>
        \A i, j \in DOMAIN scan.result.Matched :
            i # j => scan.result.Matched[i].Entry # scan.result.Matched[j].Entry

\* C40: a Store for a path that os.Stat fails on leaves the entries, the
\* entry that path had and the dirty flag as they were, and reports no
\* error; and Lookup, Store and Save never remove an entry: every path that
\* has an entry before the call has one after it, so the number of entries
\* of a loaded cache does not go down.
C40_StoreOfMissingFileIsNoOp ==
    [][/\ (obs'.op = "store" /\ ~obs'.info.ok) =>
            /\ entries' = entries
            /\ dirty' = dirty
            /\ obs'.had => /\ obs'.path \in DOMAIN entries'
                           /\ entries'[obs'.path] = entry(obs'.key, obs'.stored)
            /\ obs'.err = NoErr
       /\ obs'.op # "load" =>
            /\ DOMAIN entries \subseteq DOMAIN entries'
            /\ Cardinality(DOMAIN entries') >= Cardinality(DOMAIN entries)]_vars

\* Store was called for a deleted file that has an entry in a cache that
\* is not dirty, and the entry is still there.
C40_Witness ==
    /\ obs.op = "store"
    /\ ~obs.info.ok
    /\ obs.had
    /\ obs.path \in DOMAIN entries
    /\ entries[obs.path].Meta # obs.meta
    /\ ~dirty
    /\ obs.before = <<entries, dirty, disk>>

====
